---- MODULE Spec2Model ----
(***************************************************************************)
(* A model of the Lox interpreter of this repository: the Pratt expression *)
(* parser and the statement parser of src/src/parse.rs, and the tree       *)
(* walking evaluator with its environment stack of src/src/interpret.rs.   *)
(*                                                                         *)
(* Text (identifier names, string literals) is a sequence of one-character *)
(* strings.  Option<T> is a sequence of length 0 (None) or 1 (Some).       *)
(* Every record of one family carries the same fields, so that any two     *)
(* values of a family can be compared.                                     *)
(***************************************************************************)
EXTENDS Integers, Sequences, FiniteSets

None == <<>>
Some(x) == <<x>>

(***************************************************************************)
(* f64.  A number is kept in sign-magnitude form, as IEEE-754 does: class  *)
(* c ("fin", "inf" or "nan"), sign bit s, and for a finite number the      *)
(* magnitude num/den in lowest terms.  Rounding and overflow are not       *)
(* modelled: the arithmetic below is exact on the small operands used.     *)
(***************************************************************************)
Abs(i) == IF i < 0 THEN -i ELSE i

RECURSIVE Gcd(_, _)
Gcd(a, b) == IF b = 0 THEN a ELSE Gcd(b, a % b)

F64Fin(s, num, den) ==
    LET g == Gcd(num, den)
    IN  [c |-> "fin", s |-> s, num |-> num \div g, den |-> den \div g]

F64Inf(s) == [c |-> "inf", s |-> s, num |-> 0, den |-> 1]

F64NaN == [c |-> "nan", s |-> FALSE, num |-> 0, den |-> 1]

F64Lit(n) == F64Fin(FALSE, n, 1)

F64IsZero(x) == x.c = "fin" /\ x.num = 0

f64_neg(x) == IF x.c = "nan" THEN x ELSE [x EXCEPT !.s = ~x.s]

f64_add(x, y) ==
    IF x.c = "nan" \/ y.c = "nan" THEN F64NaN
    ELSE IF x.c = "inf" /\ y.c = "inf" THEN (IF x.s = y.s THEN x ELSE F64NaN)
    ELSE IF x.c = "inf" THEN x
    ELSE IF y.c = "inf" THEN y
    ELSE LET sx == IF x.s THEN -x.num ELSE x.num
             sy == IF y.s THEN -y.num ELSE y.num
             n  == sx * y.den + sy * x.den
         IN  IF n = 0 THEN F64Fin(x.s /\ y.s, 0, 1)
             ELSE F64Fin(n < 0, Abs(n), x.den * y.den)

f64_sub(x, y) == f64_add(x, f64_neg(y))

f64_mul(x, y) ==
    IF x.c = "nan" \/ y.c = "nan" THEN F64NaN
    ELSE IF (x.c = "inf" /\ F64IsZero(y)) \/ (y.c = "inf" /\ F64IsZero(x)) THEN F64NaN
    ELSE IF x.c = "inf" \/ y.c = "inf" THEN F64Inf(x.s /= y.s)
    ELSE F64Fin(x.s /= y.s, x.num * y.num, x.den * y.den)

f64_div(x, y) ==
    IF x.c = "nan" \/ y.c = "nan" THEN F64NaN
    ELSE IF x.c = "inf" /\ y.c = "inf" THEN F64NaN
    ELSE IF x.c = "inf" THEN F64Inf(x.s /= y.s)
    ELSE IF y.c = "inf" THEN F64Fin(x.s /= y.s, 0, 1)
    ELSE IF F64IsZero(y) THEN (IF F64IsZero(x) THEN F64NaN ELSE F64Inf(x.s /= y.s))
    ELSE F64Fin(x.s /= y.s, x.num * y.den, x.den * y.num)

f64_eq(x, y) ==
    /\ x.c /= "nan"
    /\ y.c /= "nan"
    /\ (F64IsZero(x) /\ F64IsZero(y)) \/ x = y

f64_lt(x, y) ==
    /\ x.c /= "nan"
    /\ y.c /= "nan"
    /\ ~f64_eq(x, y)
    /\ IF x.c = "inf" THEN x.s
       ELSE IF y.c = "inf" THEN ~y.s
       ELSE LET sx == IF x.s THEN -x.num ELSE x.num
                sy == IF y.s THEN -y.num ELSE y.num
            IN  sx * y.den < sy * x.den

f64_le(x, y) == f64_lt(x, y) \/ f64_eq(x, y)

(***************************************************************************)
(* interpret.rs: enum Value                                                *)
(***************************************************************************)
Value(t, b, n, s) == [t |-> t, b |-> b, n |-> n, s |-> s]

Boolean(b) == Value("Boolean", b, F64Lit(0), <<>>)

Number(n) == Value("Number", FALSE, n, <<>>)

String(s) == Value("String", FALSE, F64Lit(0), s)

Nil == Value("Nil", FALSE, F64Lit(0), <<>>)

(***************************************************************************)
(* interpret.rs: enum EvaluationError                                      *)
(***************************************************************************)
EvaluationError(k, ident) == [k |-> k, ident |-> ident]

NoError == EvaluationError("", <<>>)

ExpectedNumber == EvaluationError("ExpectedNumber", <<>>)

WrongPlusOperands == EvaluationError("WrongPlusOperands", <<>>)

UndeclaredVariable(ident) == EvaluationError("UndeclaredVariable", ident)

UndefinedVariable(ident) == EvaluationError("UndefinedVariable", ident)

(***************************************************************************)
(* parse.rs: enum ExpressionTree and the enums it wraps.  k is the variant *)
(* (with its enum, as two enums have a Minus), s the borrowed text of a    *)
(* String, Identifier or Assignment, n the value of a Number, kids the     *)
(* boxed children in order.                                                *)
(***************************************************************************)
Tree(k, s, n, kids) == [k |-> k, s |-> s, n |-> n, kids |-> kids]

Leaf(k) == Tree(k, <<>>, F64Lit(0), <<>>)

PrimaryNil == Leaf("Primary::Nil")

PrimaryTrue == Leaf("Primary::True")

PrimaryFalse == Leaf("Primary::False")

PrimaryNumber(n) == Tree("Primary::Number", <<>>, n, <<>>)

PrimaryString(s) == Tree("Primary::String", s, F64Lit(0), <<>>)

PrimaryIdentifier(ident) == Tree("Primary::Identifier", ident, F64Lit(0), <<>>)

PrimaryGroup(t) == Tree("Primary::Group", <<>>, F64Lit(0), <<t>>)

Unary(k, t) == Tree(k, <<>>, F64Lit(0), <<t>>)

Binary(k, lhs, rhs) == Tree(k, <<>>, F64Lit(0), <<lhs, rhs>>)

Assignment(ident, t) == Tree("Assignment", ident, F64Lit(0), <<t>>)

(***************************************************************************)
(* parse.rs: enum StatementTree.  e is the Option of the expression, body  *)
(* the statements of a Block.                                              *)
(***************************************************************************)
Statement(k, ident, e, body) == [k |-> k, ident |-> ident, e |-> e, body |-> body]

StmtPrint(e) == Statement("Print", <<>>, Some(e), <<>>)

StmtExpr(e) == Statement("Expr", <<>>, Some(e), <<>>)

StmtVarDeclaration(ident, e) == Statement("VarDeclaration", ident, e, <<>>)

StmtBlock(body) == Statement("Block", <<>>, None, body)

(***************************************************************************)
(* interpret.rs: struct Environments, a Vec of HashMaps.  A frame is a     *)
(* function from the names it binds to their values; envs[1] is the global *)
(* frame and envs[Len(envs)] the innermost one.                            *)
(***************************************************************************)
EmptyFrame == [ident \in {} |-> Nil]

FrameInsert(frame, ident, value) ==
    [i \in DOMAIN frame \cup {ident} |-> IF i = ident THEN value ELSE frame[i]]

new == <<EmptyFrame>>

push_block(envs) == Append(envs, EmptyFrame)

\* pop_block without its test of the length.
pop_block_unguarded(envs) == SubSeq(envs, 1, Len(envs) - 1)

pop_block(envs) == IF Len(envs) > 1 THEN SubSeq(envs, 1, Len(envs) - 1) ELSE envs

\* The frame that `self.0.iter().rev()` reaches first among those that bind
\* ident, 0 when the loop falls through.
rev_find(envs, ident) ==
    LET hits == {i \in DOMAIN envs : ident \in DOMAIN envs[i]}
    IN  IF hits = {} THEN 0 ELSE CHOOSE i \in hits : \A j \in hits : j <= i

\* get without `.rev()`: the value of the outermost frame that binds ident.
get_outermost(envs, ident) ==
    LET hits == {i \in DOMAIN envs : ident \in DOMAIN envs[i]}
    IN  IF hits = {} THEN None
        ELSE Some(envs[CHOOSE i \in hits : \A j \in hits : i <= j][ident])

get(envs, ident) ==
    LET i == rev_find(envs, ident)
    IN  IF i = 0 THEN None ELSE Some(envs[i][ident])

\* get_mut without `.rev()`: the outermost frame that binds ident.
get_mut_outermost(envs, ident) ==
    LET hits == {i \in DOMAIN envs : ident \in DOMAIN envs[i]}
    IN  IF hits = {} THEN None ELSE Some(CHOOSE i \in hits : \A j \in hits : i <= j)

\* get_mut returns a reference into a frame: the place <<frame, ident>>.
get_mut(envs, ident) ==
    LET i == rev_find(envs, ident)
    IN  IF i = 0 THEN None ELSE Some(i)

\* insert that keeps the binding the last frame already has.
insert_keep_existing(envs, ident, value) ==
    IF Len(envs) = 0 THEN envs
    ELSE IF ident \in DOMAIN envs[Len(envs)] THEN envs
    ELSE [envs EXCEPT ![Len(envs)] = FrameInsert(@, ident, value)]

\* insert into the first frame instead of the last.
insert_global(envs, ident, value) ==
    IF Len(envs) = 0 THEN envs
    ELSE [envs EXCEPT ![1] = FrameInsert(@, ident, value)]

\* `.last_mut().expect(..)` panics on an empty stack; the stack is left as
\* it is there.
insert(envs, ident, value) ==
    IF Len(envs) = 0 THEN envs
    ELSE [envs EXCEPT ![Len(envs)] = FrameInsert(@, ident, value)]

(***************************************************************************)
(* interpret.rs: Interpreter::evaluate_expr.  The result carries the       *)
(* Result (ok, then v or err) and the environments after the evaluation,   *)
(* which an Assignment inside the expression has changed.                  *)
(***************************************************************************)
Ok(v, envs) == [ok |-> TRUE, v |-> v, err |-> NoError, envs |-> envs]

Err(err, envs) == [ok |-> FALSE, v |-> Nil, err |-> err, envs |-> envs]

\* as_number that takes nil for the number 0.
as_number_nil_zero(value) ==
    IF value.t \in {"Number", "Nil"}
    THEN [ok |-> TRUE, n |-> value.n, err |-> NoError]
    ELSE [ok |-> FALSE, n |-> F64Lit(0), err |-> ExpectedNumber]

\* Value::as_number: the f64 of a Number, ExpectedNumber for the rest.
as_number(value) ==
    IF value.t = "Number"
    THEN [ok |-> TRUE, n |-> value.n, err |-> NoError]
    ELSE [ok |-> FALSE, n |-> F64Lit(0), err |-> ExpectedNumber]

\* The match of Unary::Bang with the number 0 falsy.
UnaryBangZeroFalsy(value) ==
    CASE value.t = "Boolean" -> (IF value.b THEN Boolean(FALSE) ELSE Boolean(TRUE))
      [] value.t = "Number" -> Boolean(F64IsZero(value.n))
      [] value.t = "String" -> Boolean(FALSE)
      [] value.t = "Nil" -> Boolean(TRUE)

UnaryBang(value) ==
    CASE value.t = "Boolean" -> (IF value.b THEN Boolean(FALSE) ELSE Boolean(TRUE))
      [] value.t \in {"Number", "String"} -> Boolean(FALSE)
      [] value.t = "Nil" -> Boolean(TRUE)

NumericKinds ==
    {"Factor::Slash", "Factor::Star", "Term::Minus", "Comparison::Less",
     "Comparison::LessEqual", "Comparison::Greater", "Comparison::GreaterEqual"}

\* The last line of each arm of Factor, Term::Minus and Comparison.
NumericOp(k, lhs, rhs) ==
    CASE k = "Factor::Slash" -> Number(f64_div(lhs, rhs))
      [] k = "Factor::Star" -> Number(f64_mul(lhs, rhs))
      [] k = "Term::Minus" -> Number(f64_sub(lhs, rhs))
      [] k = "Comparison::Less" -> Boolean(f64_lt(lhs, rhs))
      [] k = "Comparison::LessEqual" -> Boolean(f64_le(lhs, rhs))
      [] k = "Comparison::Greater" -> Boolean(f64_lt(rhs, lhs))
      [] k = "Comparison::GreaterEqual" -> Boolean(f64_le(rhs, lhs))

\* The match of Term::Plus with ExpectedNumber in its last arm.
TermPlusExpectedNumber(lhs, rhs, envs) ==
    IF lhs.t = "Number" /\ rhs.t = "Number" THEN Ok(Number(f64_add(lhs.n, rhs.n)), envs)
    ELSE IF lhs.t = "String" /\ rhs.t = "String" THEN Ok(String(lhs.s \o rhs.s), envs)
    ELSE Err(ExpectedNumber, envs)

\* The match of Term::Plus on the two operand values.
TermPlus(lhs, rhs, envs) ==
    IF lhs.t = "Number" /\ rhs.t = "Number" THEN Ok(Number(f64_add(lhs.n, rhs.n)), envs)
    ELSE IF lhs.t = "String" /\ rhs.t = "String" THEN Ok(String(lhs.s \o rhs.s), envs)
    ELSE Err(WrongPlusOperands, envs)

\* The match of Equality::EqualEqual on the two operand values.
EqualEqual(lhs, rhs) ==
    IF lhs.t = "Boolean" /\ rhs.t = "Boolean" THEN Boolean(lhs.b = rhs.b)
    ELSE IF lhs.t = "Number" /\ rhs.t = "Number" THEN Boolean(f64_eq(lhs.n, rhs.n))
    ELSE IF lhs.t = "String" /\ rhs.t = "String" THEN Boolean(lhs.s = rhs.s)
    ELSE IF lhs.t = "Nil" /\ rhs.t = "Nil" THEN Boolean(TRUE)
    ELSE Boolean(FALSE)

\* The match of Equality::BangEqual on the two operand values.
BangEqual(lhs, rhs) ==
    IF lhs.t = "Boolean" /\ rhs.t = "Boolean" THEN Boolean(lhs.b /= rhs.b)
    ELSE IF lhs.t = "Number" /\ rhs.t = "Number" THEN Boolean(~f64_eq(lhs.n, rhs.n))
    ELSE IF lhs.t = "String" /\ rhs.t = "String" THEN Boolean(lhs.s /= rhs.s)
    ELSE IF lhs.t = "Nil" /\ rhs.t = "Nil" THEN Boolean(TRUE)
    ELSE Boolean(FALSE)

\* Assignment that declares in the current frame instead of storing at the
\* place get_mut found.
AssignmentStoreInsert(envs, ident, value) == Ok(value, insert(envs, ident, value))

\* Assignment that returns `value` after the swap, which is the old value.
AssignmentStoreOld(envs, ident, value) ==
    LET place == get_mut(envs, ident)
        i     == place[1]
        after == [envs EXCEPT ![i] = [@ EXCEPT ![ident] = value]]
    IN  Ok(envs[i][ident], after)

\* The Some arm of Assignment after the right-hand side gave `value`:
\* mem::swap stores it at the place get_mut found, and the clone of that
\* place is the value of the expression.
AssignmentStore(envs, ident, value) ==
    LET place == get_mut(envs, ident)
        i     == place[1]
        after == [envs EXCEPT ![i] = [@ EXCEPT ![ident] = value]]
    IN  Ok(after[i][ident], after)

\* The arm that evaluates both operands before it asks for Numbers, as the
\* arm of Term::Plus does.
NumericArmBothFirst(k, lhs, rhs) ==
    IF ~lhs.ok THEN lhs
    ELSE IF ~rhs.ok THEN rhs
    ELSE IF ~as_number(lhs.v).ok THEN Err(as_number(lhs.v).err, rhs.envs)
    ELSE IF ~as_number(rhs.v).ok THEN Err(as_number(rhs.v).err, rhs.envs)
    ELSE Ok(NumericOp(k, as_number(lhs.v).n, as_number(rhs.v).n), rhs.envs)

\* interpret.rs lines 88-135, the arms of `/`, `*`, `-` and the comparisons:
\*   let lhs = self.evaluate_expr(*lhs)?.as_number()?;
\*   let rhs = self.evaluate_expr(*rhs)?.as_number()?;
\* lhs is the evaluation of the left operand and rhs that of the right one
\* from the environments lhs left, made only when the first line passed.
NumericArm(k, lhs, rhs) ==
    IF ~lhs.ok THEN lhs
    ELSE IF ~as_number(lhs.v).ok THEN Err(as_number(lhs.v).err, lhs.envs)
    ELSE IF ~rhs.ok THEN rhs
    ELSE IF ~as_number(rhs.v).ok THEN Err(as_number(rhs.v).err, rhs.envs)
    ELSE Ok(NumericOp(k, as_number(lhs.v).n, as_number(rhs.v).n), rhs.envs)

\* Assignment that evaluates its right-hand side first and looks the name
\* up afterwards.
AssignmentArmRhsFirst(envs, ident, value) ==
    IF ~value.ok THEN value
    ELSE IF get(value.envs, ident) = None
         THEN Err(UndeclaredVariable(ident), value.envs)
    ELSE AssignmentStore(value.envs, ident, value.v)

\* interpret.rs lines 156-165: `match self.environments.get(ident)`; value
\* is the evaluation of the right-hand side from envs, which only the Some
\* arm makes.
AssignmentArm(envs, ident, value) ==
    IF get(envs, ident) = None THEN Err(UndeclaredVariable(ident), envs)
    ELSE IF ~value.ok THEN value
    ELSE AssignmentStore(value.envs, ident, value.v)

RECURSIVE evaluate_expr(_, _)
evaluate_expr(token_tree, envs) ==
    LET k == token_tree.k
        kids == token_tree.kids
    IN  CASE k = "Primary::String" -> Ok(String(token_tree.s), envs)
          [] k = "Primary::Number" -> Ok(Number(token_tree.n), envs)
          [] k = "Primary::True" -> Ok(Boolean(TRUE), envs)
          [] k = "Primary::False" -> Ok(Boolean(FALSE), envs)
          [] k = "Primary::Nil" -> Ok(Nil, envs)
          [] k = "Primary::Group" -> evaluate_expr(kids[1], envs)
          [] k = "Primary::Identifier" ->
                LET found == get(envs, token_tree.s)
                IN  IF found = None THEN Err(UndefinedVariable(token_tree.s), envs)
                    ELSE Ok(found[1], envs)
          [] k = "Unary::Bang" ->
                LET value == evaluate_expr(kids[1], envs)
                IN  IF ~value.ok THEN value ELSE Ok(UnaryBang(value.v), value.envs)
          [] k = "Unary::Minus" ->
                LET value_tmp == evaluate_expr(kids[1], envs)
                IN  IF ~value_tmp.ok THEN value_tmp
                    ELSE LET value == as_number(value_tmp.v)
                         IN  IF ~value.ok THEN Err(value.err, value_tmp.envs)
                             ELSE Ok(Number(f64_neg(value.n)), value_tmp.envs)
          [] k \in NumericKinds ->
                LET lhs == evaluate_expr(kids[1], envs)
                IN  NumericArm(k, lhs, evaluate_expr(kids[2], lhs.envs))
          [] k \in {"Term::Plus", "Equality::EqualEqual", "Equality::BangEqual"} ->
                LET lhs == evaluate_expr(kids[1], envs)
                IN  IF ~lhs.ok THEN lhs
                    ELSE LET rhs == evaluate_expr(kids[2], lhs.envs)
                         IN  IF ~rhs.ok THEN rhs
                             ELSE IF k = "Term::Plus" THEN TermPlus(lhs.v, rhs.v, rhs.envs)
                             ELSE IF k = "Equality::EqualEqual"
                                  THEN Ok(EqualEqual(lhs.v, rhs.v), rhs.envs)
                             ELSE Ok(BangEqual(lhs.v, rhs.v), rhs.envs)
          [] k = "Assignment" ->
                AssignmentArm(envs, token_tree.s, evaluate_expr(kids[1], envs))

(***************************************************************************)
(* lex.rs: enum Token.  k is the variant, s the borrowed text (of a        *)
(* String, of an Identifier, the lexeme of a Number), n the value of a     *)
(* Number.                                                                 *)
(***************************************************************************)
Token(k, s, n) == [k |-> k, s |-> s, n |-> n]

Tok(k) == Token(k, <<>>, F64Lit(0))

TokenIdentifier(ident) == Token("Identifier", ident, F64Lit(0))

TokenString(s) == Token("String", s, F64Lit(0))

\* The tokens the lexer makes of the digits 0 to 9.
TokenNumber(d) ==
    Token("Number",
          <<<<"0", "1", "2", "3", "4", "5", "6", "7", "8", "9">>[d + 1]>>,
          F64Lit(d))

(***************************************************************************)
(* parse.rs: enum ParseExpressionError, and the Result of a parser: st is  *)
(* "ok", "err", or "panic" when the parser panicked (panic!, unreachable!) *)
(* and the process is aborted; val holds what Ok carries (for parse_expr   *)
(* one tree, for parse_statement the Option of a statement, for            *)
(* parse_statements the statements); rest is what is left of the token     *)
(* iterator.                                                               *)
(***************************************************************************)
ParseExpressionError(k, token) == [k |-> k, token |-> token]

NoParseError == ParseExpressionError("", None)

InvalidToken(token) == ParseExpressionError("InvalidToken", Some(token))

MissingRightParen == ParseExpressionError("MissingRightParen", None)

MissingRightBrace == ParseExpressionError("MissingRightBrace", None)

ParseOk(val, rest) == [st |-> "ok", val |-> val, err |-> NoParseError, rest |-> rest]

ParseErr(err, rest) == [st |-> "err", val |-> <<>>, err |-> err, rest |-> rest]

ParsePanic(message, rest) ==
    [st |-> "panic", val |-> <<>>, err |-> ParseExpressionError(message, None),
     rest |-> rest]

\* tokens.next(), for its effect on the iterator.
Advance(tokens) == IF tokens = <<>> THEN tokens ELSE Tail(tokens)

Peek(tokens, k) == tokens /= <<>> /\ Head(tokens).k = k

\* The table with the comparisons given the binding power of `+` and `-`.
InfixBpComparisonAsTerm(k) ==
    CASE k \in {"Star", "Slash"} -> 5
      [] k \in {"Plus", "Minus", "Less", "LessEqual", "Greater", "GreaterEqual"} -> 4
      [] k \in {"EqualEqual", "BangEqual"} -> 2
      [] OTHER -> 0

\* `let bp = ..` of each arm of the infix loop; 0 for the arm `_ => break`.
InfixBp(k) ==
    CASE k \in {"Star", "Slash"} -> 5
      [] k \in {"Plus", "Minus"} -> 4
      [] k \in {"Less", "LessEqual", "Greater", "GreaterEqual"} -> 3
      [] k \in {"EqualEqual", "BangEqual"} -> 2
      [] OTHER -> 0

\* `if bp >= min_bp`
BindsTighterOrEqual(bp, min_bp) == bp >= min_bp

\* `if bp > min_bp`
BindsTighter(bp, min_bp) == bp > min_bp

\* The node each arm of the infix loop folds lhs and rhs into.
InfixNode(k) ==
    CASE k = "Star" -> "Factor::Star"
      [] k = "Slash" -> "Factor::Slash"
      [] k = "Plus" -> "Term::Plus"
      [] k = "Minus" -> "Term::Minus"
      [] k = "Less" -> "Comparison::Less"
      [] k = "LessEqual" -> "Comparison::LessEqual"
      [] k = "Greater" -> "Comparison::Greater"
      [] k = "GreaterEqual" -> "Comparison::GreaterEqual"
      [] k = "EqualEqual" -> "Equality::EqualEqual"
      [] k = "BangEqual" -> "Equality::BangEqual"

\* The min_bp at which the right-hand side of an assignment is parsed.
AssignmentBp == 1

\* The min_bp at which the operand of a prefix operator is parsed.
PrefixBp == 5

RECURSIVE parse_expr(_, _)
RECURSIVE infix_loop(_, _, _)
\* The end of the stream as an error where an operand is parsed, the Nil
\* kept for the call with min_bp 0.
EndOfStreamOperandMissing(tokens, min_bp) ==
    IF min_bp > 0 THEN ParseErr(MissingRightParen, tokens)
    ELSE infix_loop(PrimaryNil, tokens, min_bp)

\* parse.rs lines 142-144: `else { ExpressionTree::Primary(Primary::Nil) }`
\* when tokens.next() is None; the loop over the infix operators follows.
EndOfStream(tokens, min_bp) == infix_loop(PrimaryNil, tokens, min_bp)

\* parse.rs lines 111-144: the first token.
parse_expr(tokens, min_bp) ==
    IF tokens = <<>> THEN EndOfStream(tokens, min_bp)
    ELSE
    LET token == Head(tokens)
        rest  == Tail(tokens)
    IN  CASE token.k = "Nil" -> infix_loop(PrimaryNil, rest, min_bp)
          [] token.k = "True" -> infix_loop(PrimaryTrue, rest, min_bp)
          [] token.k = "False" -> infix_loop(PrimaryFalse, rest, min_bp)
          [] token.k = "Number" -> infix_loop(PrimaryNumber(token.n), rest, min_bp)
          [] token.k = "String" -> infix_loop(PrimaryString(token.s), rest, min_bp)
          [] token.k = "LeftParen" ->
                LET inner == parse_expr(rest, 0)
                IN  IF inner.st /= "ok" THEN inner
                    ELSE IF ~Peek(inner.rest, "RightParen")
                         THEN ParseErr(MissingRightParen, Advance(inner.rest))
                    ELSE infix_loop(PrimaryGroup(inner.val[1]), Tail(inner.rest), min_bp)
          [] token.k = "Identifier" ->
                IF Peek(rest, "Equal")
                THEN LET rhs == parse_expr(Tail(rest), AssignmentBp)
                     IN  IF rhs.st /= "ok" THEN rhs
                         ELSE infix_loop(Assignment(token.s, rhs.val[1]), rhs.rest, min_bp)
                ELSE infix_loop(PrimaryIdentifier(token.s), rest, min_bp)
          [] token.k \in {"Minus", "Bang"} ->
                LET operand == parse_expr(rest, PrefixBp)
                IN  IF operand.st /= "ok" THEN operand
                    ELSE infix_loop(
                             Unary(IF token.k = "Minus" THEN "Unary::Minus" ELSE "Unary::Bang",
                                   operand.val[1]),
                             operand.rest, min_bp)
          [] OTHER -> ParseErr(InvalidToken(token), rest)

\* parse.rs lines 147-263: the loop over the infix operators.
infix_loop(lhs, tokens, min_bp) ==
    IF tokens = <<>> THEN ParseOk(<<lhs>>, tokens)
    ELSE
    LET next_token == Head(tokens)
        bp == InfixBp(next_token.k)
    IN  IF bp = 0 \/ ~BindsTighter(bp, min_bp) THEN ParseOk(<<lhs>>, tokens)
        ELSE LET rhs == parse_expr(Tail(tokens), bp)
             IN  IF rhs.st /= "ok" THEN rhs
                 ELSE infix_loop(Binary(InfixNode(next_token.k), lhs, rhs.val[1]),
                                 rhs.rest, min_bp)

\* `if let Some(token) = tokens.next() { if token != Token::Semicolon { panic!
\* .. } }` and the statement that follows it.
ExpectSemicolon(statement, tokens) ==
    IF tokens = <<>> THEN ParseOk(<<statement>>, tokens)
    ELSE IF Head(tokens).k /= "Semicolon"
         THEN ParsePanic("Expected semicolon", Tail(tokens))
    ELSE ParseOk(<<statement>>, Tail(tokens))

RECURSIVE parse_statement(_)
RECURSIVE block_loop(_, _)
parse_statement(tokens) ==
    IF tokens = <<>> THEN ParseOk(None, tokens)
    ELSE
    LET token == Head(tokens)
        rest  == Tail(tokens)
    IN  CASE token.k = "Print" ->
                LET expr == parse_expr(rest, 0)
                IN  IF expr.st /= "ok" THEN expr
                    ELSE ExpectSemicolon(StmtPrint(expr.val[1]), expr.rest)
          [] token.k = "Var" ->
                IF ~Peek(rest, "Identifier")
                THEN ParsePanic("Expected identifier", Advance(rest))
                ELSE LET ident == Head(rest).s
                         after == Tail(rest)
                     IN  IF Peek(after, "Equal")
                         THEN LET expr == parse_expr(Tail(after), 0)
                              IN  IF expr.st /= "ok" THEN expr
                                  ELSE ExpectSemicolon(
                                           StmtVarDeclaration(ident, Some(expr.val[1])),
                                           expr.rest)
                         ELSE ExpectSemicolon(StmtVarDeclaration(ident, None), after)
          [] token.k = "LeftBrace" ->
                LET block == block_loop(<<>>, rest)
                IN  IF block.st /= "ok" THEN block
                    ELSE IF ~Peek(block.rest, "RightBrace")
                         THEN ParseErr(MissingRightBrace, Advance(block.rest))
                    ELSE ParseOk(<<StmtBlock(block.val)>>, Tail(block.rest))
          [] token.k = "RightBrace" -> ParsePanic("unreachable", tokens)
          [] OTHER ->
                LET expr == parse_expr(tokens, 0)
                IN  IF expr.st /= "ok" THEN expr
                    ELSE ExpectSemicolon(StmtExpr(expr.val[1]), expr.rest)

\* parse.rs lines 61-69: the loop that collects the statements of a block.
block_loop(block_statements, tokens) ==
    LET statement == parse_statement(tokens)
    IN  IF statement.st /= "ok" THEN statement
        ELSE IF statement.val = None THEN ParseOk(block_statements, statement.rest)
        ELSE IF Peek(statement.rest, "RightBrace")
             THEN ParseOk(Append(block_statements, statement.val[1]), statement.rest)
        ELSE block_loop(Append(block_statements, statement.val[1]), statement.rest)

RECURSIVE statements_loop(_, _)
\* parse.rs lines 13-15: the loop of parse_statements.
statements_loop(statements, tokens) ==
    LET statement == parse_statement(tokens)
    IN  IF statement.st /= "ok" THEN statement
        ELSE IF statement.val = None THEN ParseOk(statements, statement.rest)
        ELSE statements_loop(Append(statements, statement.val[1]), statement.rest)

\* parse_statements with an `if let` in the place of its `while let`: it
\* returns after the first statement.
parse_statements_once(tokens) ==
    LET statement == parse_statement(tokens)
    IN  IF statement.st /= "ok" THEN statement
        ELSE IF statement.val = None THEN ParseOk(<<>>, statement.rest)
        ELSE ParseOk(<<statement.val[1]>>, statement.rest)

parse_statements(tokens) == statements_loop(<<>>, tokens)

(***************************************************************************)
(* lex.rs: the Lexer.  file_content is the sequence of the characters of   *)
(* the source, chars the number of characters the CharIndices iterator has *)
(* yielded (its next one is file_content[chars + 1]), line_count the line  *)
(* counter.  An item of the iterator is None, Some(Ok(token)) or           *)
(* Some(Err(LexingError)): st is "none", "ok" or "err".                    *)
(***************************************************************************)
Digits == {"0", "1", "2", "3", "4", "5", "6", "7", "8", "9"}

\* 'a'..='z' | 'A'..='Z' | '_'
Letters ==
    {"a", "b", "c", "d", "e", "f", "g", "h", "i", "j", "k", "l", "m", "n", "o",
     "p", "q", "r", "s", "t", "u", "v", "w", "x", "y", "z",
     "A", "B", "C", "D", "E", "F", "G", "H", "I", "J", "K", "L", "M", "N", "O",
     "P", "Q", "R", "S", "T", "U", "V", "W", "X", "Y", "Z", "_"}

LexingError(kind, c, line_count) == [kind |-> kind, c |-> c, line_count |-> line_count]

NoLexingError == LexingError("", "", 0)

UnterminatedString(line_count) == LexingError("UnterminatedString", "", line_count)

UnexpectedCharacter(c, line_count) == LexingError("UnexpectedCharacter", c, line_count)

ItemNone == [st |-> "none", token |-> Tok(""), err |-> NoLexingError]

ItemOk(token) == [st |-> "ok", token |-> token, err |-> NoLexingError]

ItemErr(err) == [st |-> "err", token |-> Tok(""), err |-> err]

\* What one call of next returns: the item and the lexer after it.
Lexed(item, chars, line_count) ==
    [item |-> item, chars |-> chars, line_count |-> line_count]

\* The value of a digit.
DigitValue(c) ==
    CASE c = "0" -> 0 [] c = "1" -> 1 [] c = "2" -> 2 [] c = "3" -> 3 [] c = "4" -> 4
      [] c = "5" -> 5 [] c = "6" -> 6 [] c = "7" -> 7 [] c = "8" -> 8 [] c = "9" -> 9

\* The integer the digits of text write, the `.` skipped.
RECURSIVE DigitsValue(_)
DigitsValue(text) ==
    IF text = <<>> THEN 0
    ELSE LET front == SubSeq(text, 1, Len(text) - 1)
             c     == text[Len(text)]
         IN  IF c = "." THEN DigitsValue(front)
             ELSE 10 * DigitsValue(front) + DigitValue(c)

RECURSIVE Pow10(_)
Pow10(n) == IF n = 0 THEN 1 ELSE 10 * Pow10(n - 1)

\* `number_str.parse().unwrap()` on digits with at most one `.`.
ParseF64(number_str) ==
    LET dots == {i \in DOMAIN number_str : number_str[i] = "."}
        fraction == IF dots = {} THEN 0
                    ELSE Len(number_str) - (CHOOSE i \in dots : TRUE)
    IN  F64Fin(FALSE, DigitsValue(number_str), Pow10(fraction))

\* lex.rs lines 90-106: the characters the loop of a number consumes after
\* the character at chars.
RECURSIVE NumberEnd(_, _, _)
NumberEnd(file_content, chars, first_dot) ==
    IF chars >= Len(file_content) THEN chars
    ELSE LET c == file_content[chars + 1]
         IN  IF c = "." /\ first_dot THEN chars
             ELSE IF c = "." THEN NumberEnd(file_content, chars + 1, TRUE)
             ELSE IF c \notin Digits THEN chars
             ELSE NumberEnd(file_content, chars + 1, first_dot)

\* lex.rs lines 114-120: the same for an identifier.
RECURSIVE IdentifierEnd(_, _)
IdentifierEnd(file_content, chars) ==
    IF chars >= Len(file_content) THEN chars
    ELSE IF file_content[chars + 1] \in Letters \cup Digits
         THEN IdentifierEnd(file_content, chars + 1)
    ELSE chars

\* lex.rs lines 122-140
Keyword(identifier) ==
    CASE identifier = <<"a", "n", "d">> -> Tok("And")
      [] identifier = <<"c", "l", "a", "s", "s">> -> Tok("Class")
      [] identifier = <<"e", "l", "s", "e">> -> Tok("Else")
      [] identifier = <<"f", "a", "l", "s", "e">> -> Tok("False")
      [] identifier = <<"f", "o", "r">> -> Tok("For")
      [] identifier = <<"f", "u", "n">> -> Tok("Fun")
      [] identifier = <<"i", "f">> -> Tok("If")
      [] identifier = <<"n", "i", "l">> -> Tok("Nil")
      [] identifier = <<"o", "r">> -> Tok("Or")
      [] identifier = <<"r", "e", "t", "u", "r", "n">> -> Tok("Return")
      [] identifier = <<"s", "u", "p", "e", "r">> -> Tok("Super")
      [] identifier = <<"t", "h", "i", "s">> -> Tok("This")
      [] identifier = <<"t", "r", "u", "e">> -> Tok("True")
      [] identifier = <<"v", "a", "r">> -> Tok("Var")
      [] identifier = <<"w", "h", "i", "l", "e">> -> Tok("While")
      [] identifier = <<"p", "r", "i", "n", "t">> -> Tok("Print")
      [] OTHER -> TokenIdentifier(identifier)

\* `self.chars.find(|(_, c)| c == &'"')`: the index of the next `"` after
\* chars, 0 if there is none.
FindQuote(file_content, chars) ==
    LET quotes == {i \in (chars + 1)..Len(file_content) : file_content[i] = "\""}
    IN  IF quotes = {} THEN 0 ELSE CHOOSE i \in quotes : \A j \in quotes : i <= j

\* `while self.chars.next_if(|(_, c)| c != &'\n').is_some() {}`
RECURSIVE SkipLine(_, _)
SkipLine(file_content, chars) ==
    IF chars >= Len(file_content) THEN chars
    ELSE IF file_content[chars + 1] /= "\n" THEN SkipLine(file_content, chars + 1)
    ELSE chars

\* The arms of one or two characters: `=`, `!`, `<`, `>` with `=` after.
OneOrTwo(file_content, chars, one, two, line_count) ==
    IF chars < Len(file_content) /\ file_content[chars + 1] = "="
    THEN Lexed(ItemOk(Tok(two)), chars + 1, line_count)
    ELSE Lexed(ItemOk(Tok(one)), chars, line_count)

\* The arm of `"` that looks for the closing quote without consuming: the
\* unterminated string leaves what follows its opening quote in the input.
StringArmPeeks(file_content, i, line_count) ==
    LET end == FindQuote(file_content, i)
    IN  IF end = 0
        THEN Lexed(ItemErr(UnterminatedString(line_count)), i, line_count)
        ELSE Lexed(ItemOk(TokenString(SubSeq(file_content, i + 1, end - 1))),
                   end, line_count)

\* lex.rs lines 78-86, the arm of `"`, i characters consumed: find consumes
\* up to the closing quote, or everything when there is none.
StringArm(file_content, i, line_count) ==
    LET end == FindQuote(file_content, i)
    IN  IF end = 0
        THEN Lexed(ItemErr(UnterminatedString(line_count)), Len(file_content), line_count)
        ELSE Lexed(ItemOk(TokenString(SubSeq(file_content, i + 1, end - 1))),
                   end, line_count)

\* The arm `c => ..` that, as the arm of the unterminated string does,
\* leaves nothing of the input.
UnexpectedArmEndsInput(file_content, c, i, line_count) ==
    Lexed(ItemErr(UnexpectedCharacter(c, line_count)), Len(file_content), line_count)

\* lex.rs lines 142-147: the arm `c => ..` of a character no token starts
\* with; i characters are consumed.
UnexpectedArm(file_content, c, i, line_count) ==
    Lexed(ItemErr(UnexpectedCharacter(c, line_count)), i, line_count)

\* Lexer::next
RECURSIVE next(_, _, _)
next(file_content, chars, line_count) ==
    IF chars >= Len(file_content) THEN Lexed(ItemNone, chars, line_count)
    ELSE
    LET c == file_content[chars + 1]
        i == chars + 1
    IN  CASE c = "(" -> Lexed(ItemOk(Tok("LeftParen")), i, line_count)
          [] c = ")" -> Lexed(ItemOk(Tok("RightParen")), i, line_count)
          [] c = "{" -> Lexed(ItemOk(Tok("LeftBrace")), i, line_count)
          [] c = "}" -> Lexed(ItemOk(Tok("RightBrace")), i, line_count)
          [] c = "," -> Lexed(ItemOk(Tok("Comma")), i, line_count)
          [] c = "." -> Lexed(ItemOk(Tok("Dot")), i, line_count)
          [] c = "-" -> Lexed(ItemOk(Tok("Minus")), i, line_count)
          [] c = "+" -> Lexed(ItemOk(Tok("Plus")), i, line_count)
          [] c = ";" -> Lexed(ItemOk(Tok("Semicolon")), i, line_count)
          [] c = "*" -> Lexed(ItemOk(Tok("Star")), i, line_count)
          [] c = "=" -> OneOrTwo(file_content, i, "Equal", "EqualEqual", line_count)
          [] c = "!" -> OneOrTwo(file_content, i, "Bang", "BangEqual", line_count)
          [] c = "<" -> OneOrTwo(file_content, i, "Less", "LessEqual", line_count)
          [] c = ">" -> OneOrTwo(file_content, i, "Greater", "GreaterEqual", line_count)
          [] c = "/" ->
                IF i < Len(file_content) /\ file_content[i + 1] = "/"
                THEN next(file_content, SkipLine(file_content, i + 1), line_count)
                ELSE Lexed(ItemOk(Tok("Slash")), i, line_count)
          [] c \in {" ", "\t"} -> next(file_content, i, line_count)
          [] c = "\n" -> next(file_content, i, line_count + 1)
          [] c = "\"" -> StringArm(file_content, i, line_count)
          [] c \in Digits ->
                LET end == NumberEnd(file_content, i, FALSE)
                    number_str == SubSeq(file_content, i, end)
                IN  Lexed(ItemOk(Token("Number", number_str, ParseF64(number_str))),
                          end, line_count)
          [] c \in Letters ->
                LET end == IdentifierEnd(file_content, i)
                IN  Lexed(ItemOk(Keyword(SubSeq(file_content, i, end))), end, line_count)
          [] OTHER -> UnexpectedArm(file_content, c, i, line_count)

\* The items the iterator yields from chars on, to the first None.
RECURSIVE Items(_, _, _)
Items(file_content, chars, line_count) ==
    LET lexed == next(file_content, chars, line_count)
    IN  IF lexed.item.st = "none" THEN <<>>
        ELSE <<lexed.item>> \o Items(file_content, lexed.chars, lexed.line_count)

(***************************************************************************)
(* lex.rs: Display of Token and of LexingError.  A line of the dump is     *)
(* `NAME LEXEME LITERAL`, kept as its three parts; `EOF  null` is the line *)
(* with the empty lexeme.                                                  *)
(***************************************************************************)
DumpLine(name, lexeme, literal) == [name |-> name, lexeme |-> lexeme, literal |-> literal]

Null == <<"n", "u", "l", "l">>

\* println!("EOF  null")
EofLine == DumpLine("EOF", <<>>, Null)

\* The decimal digits of a natural number.
RECURSIVE NatText(_)
NatText(n) ==
    LET digit == <<"0", "1", "2", "3", "4", "5", "6", "7", "8", "9">>[(n % 10) + 1]
    IN  IF n < 10 THEN <<digit>> ELSE Append(NatText(n \div 10), digit)

\* The digits after the point of rem / den, rem < den, den a divisor of a
\* power of 10.
RECURSIVE FractionText(_, _)
FractionText(rem, den) ==
    IF rem = 0 THEN <<>>
    ELSE NatText((10 * rem) \div den) \o FractionText((10 * rem) % den, den)

\* `{number:?}` of an f64: at least one digit after the point.
F64Debug(x) ==
    CASE x.c = "nan" -> <<"N", "a", "N">>
      [] x.c = "inf" -> (IF x.s THEN <<"-">> ELSE <<>>) \o <<"i", "n", "f">>
      [] OTHER ->
            LET fraction == FractionText(x.num % x.den, x.den)
            IN  (IF x.s THEN <<"-">> ELSE <<>>) \o NatText(x.num \div x.den) \o <<".">>
                    \o (IF fraction = <<>> THEN <<"0">> ELSE fraction)

\* The name and the lexeme of the tokens without payload.
TokenNames(k) ==
    CASE k = "LeftParen" -> <<"LEFT_PAREN", <<"(">> >>
      [] k = "RightParen" -> <<"RIGHT_PAREN", <<")">> >>
      [] k = "LeftBrace" -> <<"LEFT_BRACE", <<"{">> >>
      [] k = "RightBrace" -> <<"RIGHT_BRACE", <<"}">> >>
      [] k = "Comma" -> <<"COMMA", <<",">> >>
      [] k = "Dot" -> <<"DOT", <<".">> >>
      [] k = "Minus" -> <<"MINUS", <<"-">> >>
      [] k = "Plus" -> <<"PLUS", <<"+">> >>
      [] k = "Semicolon" -> <<"SEMICOLON", <<";">> >>
      [] k = "Star" -> <<"STAR", <<"*">> >>
      [] k = "EqualEqual" -> <<"EQUAL_EQUAL", <<"=", "=">> >>
      [] k = "Equal" -> <<"EQUAL", <<"=">> >>
      [] k = "BangEqual" -> <<"BANG_EQUAL", <<"!", "=">> >>
      [] k = "Bang" -> <<"BANG", <<"!">> >>
      [] k = "LessEqual" -> <<"LESS_EQUAL", <<"<", "=">> >>
      [] k = "Less" -> <<"LESS", <<"<">> >>
      [] k = "GreaterEqual" -> <<"GREATER_EQUAL", <<">", "=">> >>
      [] k = "Greater" -> <<"GREATER", <<">">> >>
      [] k = "Slash" -> <<"SLASH", <<"/">> >>
      [] k = "And" -> <<"AND", <<"a", "n", "d">> >>
      [] k = "Class" -> <<"CLASS", <<"c", "l", "a", "s", "s">> >>
      [] k = "Else" -> <<"ELSE", <<"e", "l", "s", "e">> >>
      [] k = "False" -> <<"FALSE", <<"f", "a", "l", "s", "e">> >>
      [] k = "For" -> <<"FOR", <<"f", "o", "r">> >>
      [] k = "Fun" -> <<"FUN", <<"f", "u", "n">> >>
      [] k = "If" -> <<"IF", <<"i", "f">> >>
      [] k = "Nil" -> <<"NIL", <<"n", "i", "l">> >>
      [] k = "Or" -> <<"OR", <<"o", "r">> >>
      [] k = "Return" -> <<"RETURN", <<"r", "e", "t", "u", "r", "n">> >>
      [] k = "Super" -> <<"SUPER", <<"s", "u", "p", "e", "r">> >>
      [] k = "This" -> <<"THIS", <<"t", "h", "i", "s">> >>
      [] k = "True" -> <<"TRUE", <<"t", "r", "u", "e">> >>
      [] k = "Var" -> <<"VAR", <<"v", "a", "r">> >>
      [] k = "While" -> <<"WHILE", <<"w", "h", "i", "l", "e">> >>
      [] k = "Print" -> <<"PRINT", <<"p", "r", "i", "n", "t">> >>

\* impl fmt::Display for Token
TokenDisplay(token) ==
    CASE token.k = "String" -> DumpLine("STRING", <<"\"">> \o token.s \o <<"\"">>, token.s)
      [] token.k = "Number" -> DumpLine("NUMBER", token.s, F64Debug(token.n))
      [] token.k = "Identifier" -> DumpLine("IDENTIFIER", token.s, Null)
      [] OTHER -> DumpLine(TokenNames(token.k)[1], TokenNames(token.k)[2], Null)

(***************************************************************************)
(* parse.rs: Display of ExpressionTree and of its nodes.  The result is    *)
(* the text written, or a panic: Primary::Identifier is todo!().           *)
(***************************************************************************)
Dump(st, text) == [st |-> st, text |-> text]

NoDump == Dump("none", <<>>)

DumpPanic == Dump("panic", <<>>)

\* The operator symbol a node is written with.
NodeSymbol(k) ==
    CASE k = "Unary::Bang" -> <<"!">>
      [] k = "Unary::Minus" -> <<"-">>
      [] k = "Factor::Slash" -> <<"/">>
      [] k = "Factor::Star" -> <<"*">>
      [] k = "Term::Minus" -> <<"-">>
      [] k = "Term::Plus" -> <<"+">>
      [] k = "Comparison::Less" -> <<"<">>
      [] k = "Comparison::LessEqual" -> <<"<", "=">>
      [] k = "Comparison::Greater" -> <<">">>
      [] k = "Comparison::GreaterEqual" -> <<">", "=">>
      [] k = "Equality::EqualEqual" -> <<"=", "=">>
      [] k = "Equality::BangEqual" -> <<"!", "=">>

\* write!(f, "(<symbol> {tt})") and write!(f, "(<symbol> {left} {right})")
RECURSIVE WriteNode(_, _)
WriteNode(symbol, kids) ==
    IF kids = <<>> THEN Dump("ok", symbol)
    ELSE LET front == WriteNode(symbol, SubSeq(kids, 1, Len(kids) - 1))
             last  == kids[Len(kids)]
         IN  IF front.st /= "ok" THEN front
             ELSE IF last.st /= "ok" THEN last
             ELSE Dump("ok", front.text \o <<" ">> \o last.text)

Parenthesised(dump) ==
    IF dump.st /= "ok" THEN dump ELSE Dump("ok", <<"(">> \o dump.text \o <<")">>)

\* impl fmt::Display for ExpressionTree, Primary, Unary, Factor, Term,
\* Comparison, Equality
RECURSIVE ExpressionTreeDisplay(_)
ExpressionTreeDisplay(token_tree) ==
    LET k == token_tree.k
        kids == [i \in DOMAIN token_tree.kids |-> ExpressionTreeDisplay(token_tree.kids[i])]
    IN  CASE k = "Primary::String" -> Dump("ok", token_tree.s)
          [] k = "Primary::Number" -> Dump("ok", F64Debug(token_tree.n))
          [] k = "Primary::True" -> Dump("ok", <<"t", "r", "u", "e">>)
          [] k = "Primary::False" -> Dump("ok", <<"f", "a", "l", "s", "e">>)
          [] k = "Primary::Nil" -> Dump("ok", <<"n", "i", "l">>)
          [] k = "Primary::Group" ->
                Parenthesised(WriteNode(<<"g", "r", "o", "u", "p">>, kids))
          [] k = "Primary::Identifier" -> DumpPanic
          [] k = "Assignment" ->
                IF kids[1].st /= "ok" THEN kids[1]
                ELSE Dump("ok", token_tree.s \o <<" ", "=", " ">> \o kids[1].text)
          [] OTHER -> Parenthesised(WriteNode(NodeSymbol(k), kids))

(***************************************************************************)
(* main.rs: the command tokenize.  lex::tokenize, which main.rs calls, is  *)
(* not in lex.rs; it is taken from the specification: it runs the Lexer    *)
(* over the whole source, reports the lex errors on standard error and     *)
(* returns the valid tokens, as Err when there was a lex error.            *)
(***************************************************************************)
RECURSIVE OkTokens(_)
OkTokens(items) ==
    IF items = <<>> THEN <<>>
    ELSE (IF Head(items).st = "ok" THEN <<Head(items).token>> ELSE <<>>)
            \o OkTokens(Tail(items))

RECURSIVE LexErrors(_)
LexErrors(items) ==
    IF items = <<>> THEN <<>>
    ELSE (IF Head(items).st = "err" THEN <<Head(items).err>> ELSE <<>>)
            \o LexErrors(Tail(items))

tokenize(file_contents) ==
    LET items == Items(file_contents, 0, 1)
    IN  [ok |-> LexErrors(items) = <<>>, tokens |-> OkTokens(items),
         stderr |-> LexErrors(items)]

\* What the process has done: the lines on standard output and on standard
\* error, and its exit code.
Console(stdout, stderr, exit_code) ==
    [ran |-> TRUE, stdout |-> stdout, stderr |-> stderr, exit_code |-> exit_code]

NoConsole == [ran |-> FALSE, stdout |-> <<>>, stderr |-> <<>>, exit_code |-> 0]

\* The arm "tokenize" with no `println!("EOF  null")` in its Err arm.
main_tokenize_err_without_eof(file_contents) ==
    IF file_contents /= <<>>
    THEN LET tokens == tokenize(file_contents)
             dump   == [i \in DOMAIN tokens.tokens |-> TokenDisplay(tokens.tokens[i])]
         IN  IF tokens.ok THEN Console(Append(dump, EofLine), tokens.stderr, 0)
             ELSE Console(dump, tokens.stderr, 65)
    ELSE Console(<<EofLine>>, <<>>, 0)

\* main.rs lines 26-48: the arm "tokenize" of main.
main_tokenize(file_contents) ==
    IF file_contents /= <<>>
    THEN LET tokens == tokenize(file_contents)
             dump   == [i \in DOMAIN tokens.tokens |-> TokenDisplay(tokens.tokens[i])]
         IN  IF tokens.ok THEN Console(Append(dump, EofLine), tokens.stderr, 0)
             ELSE Console(Append(dump, EofLine), tokens.stderr, 65)
    ELSE Console(<<EofLine>>, <<>>, 0)

(***************************************************************************)
(* The bounds of the model and the inputs drawn within them.               *)
(***************************************************************************)
\* Statements one program executes (a Block counts when it is entered).
MaxSteps == 4

\* Blocks open at once.
MaxDepth == 2

NameA == <<"a">>

NameB == <<"b">>

Names == {NameA, NameB}

One == PrimaryNumber(F64Lit(1))

Two == PrimaryNumber(F64Lit(2))

MinusString == Unary("Unary::Minus", PrimaryString(<<"s">>))

\* The expressions of the Print statements of a program.
PrintPool == {PrimaryIdentifier(NameA), PrimaryIdentifier(NameB), MinusString}

\* x = 1; x = 2;
SimpleAssignments == {Assignment(x, v) : x \in Names, v \in {One, Two}}

\* (a = 2) + nil: assigns to a, then fails with WrongPlusOperands.
AssignThenFail ==
    Binary("Term::Plus", PrimaryGroup(Assignment(NameA, Two)), PrimaryNil)

\* The expressions of the Expr statements of a program.
ExprPool ==
    SimpleAssignments
        \cup {Assignment(NameA, Assignment(NameB, Two)),
              Assignment(NameB, PrimaryIdentifier(NameA)),
              Assignment(NameA, MinusString),
              Assignment(NameA, AssignThenFail)}

\* The initializers of the VarDeclaration statements of a program.
InitPool ==
    {None, Some(One), Some(Two), Some(PrimaryIdentifier(NameA)), Some(MinusString),
     Some(AssignThenFail)}

(***************************************************************************)
(* History kept beside the program state, to state the properties of a     *)
(* Block: what was true when it was entered and what happened inside it.   *)
(***************************************************************************)
\* The value of the innermost binding of ident in frames, as an Option.
Visible(frames, ident) ==
    LET hits == {i \in DOMAIN frames : ident \in DOMAIN frames[i]}
    IN  IF hits = {} THEN None
        ELSE Some(frames[CHOOSE i \in hits : \A j \in hits : j <= i][ident])

\* The innermost frame of frames that binds ident, 0 if none does.
InnermostFrame(frames, ident) ==
    LET hits == {i \in DOMAIN frames : ident \in DOMAIN frames[i]}
    IN  IF hits = {} THEN 0 ELSE CHOOSE i \in hits : \A j \in hits : j <= i

Restrict(f, S) == [x \in DOMAIN f \cap S |-> f[x]]

\* The names an expression assigns to.
RECURSIVE AssignTargets(_)
AssignTargets(t) ==
    (IF t.k = "Assignment" THEN {t.s} ELSE {})
        \cup UNION {AssignTargets(t.kids[i]) : i \in DOMAIN t.kids}

IsSimpleAssignment(stmt) ==
    /\ stmt.k = "Expr"
    /\ stmt.e[1] \in SimpleAssignments

\* One evaluation of a Block in progress (one recursive call of evaluate):
\*   base      the number of frames before push_block
\*   snap      the environments before push_block
\*   decl      the names its own VarDeclarations declared, each with the
\*             binding the enclosing frames held when it was first declared
\*   outerAsg  the value last assigned, by a statement `x = literal;` run
\*             inside the Block, to a binding of an enclosing frame
\*   asgIn     the names assigned inside the Block after it declared them
Call(base, snap) ==
    [base |-> base, snap |-> snap, decl |-> EmptyFrame,
     outerAsg |-> EmptyFrame, asgIn |-> {}]

NoCall == Call(0, <<>>)

\* The history after statement stmt ran to completion; pre are the
\* environments before it and mid those after its expression was evaluated.
Recorded(cs, stmt, pre, mid) ==
    LET targets == IF stmt.e = None THEN {} ELSE AssignTargets(stmt.e[1])
        top == Len(cs)
    IN  IF IsSimpleAssignment(stmt)
        THEN LET x == stmt.e[1].s
                 v == Number(stmt.e[1].kids[1].n)
                 i == InnermostFrame(pre, x)
             IN  [j \in DOMAIN cs |->
                    [cs[j] EXCEPT
                       !.outerAsg = IF cs[j].base >= i THEN FrameInsert(@, x, v) ELSE @,
                       !.asgIn = IF j = top /\ x \in DOMAIN cs[j].decl
                                 THEN @ \cup {x} ELSE @]]
        ELSE [j \in DOMAIN cs |->
                [cs[j] EXCEPT
                   !.outerAsg = Restrict(@, DOMAIN @ \ targets),
                   !.decl = IF j = top /\ stmt.k = "VarDeclaration"
                                /\ stmt.ident \notin DOMAIN @
                            THEN FrameInsert(@, stmt.ident,
                                     Visible(SubSeq(mid, 1, cs[j].base), stmt.ident))
                            ELSE @]]

(***************************************************************************)
(* The interpreter running one program (interpret.rs, Interpreter).        *)
(*   envs    self.environments                                             *)
(*   calls   the evaluations of a Block in progress, outermost first       *)
(*   out     the values written by println!, in order                      *)
(*   status  "running"; "unwinding" while an Err returns through the       *)
(*           evaluations of the enclosing Blocks; "ok" or "error" once     *)
(*           the outermost evaluate has returned                           *)
(*   err     the EvaluationError returned                                  *)
(*   steps   the statements executed                                       *)
(*   cur, ev the last statement executed and the last step taken           *)
(*   left    the evaluation of a Block that returned last                  *)
(* evaluate consumes its statements front to back and never looks ahead,   *)
(* so each statement of the program is drawn when the loop reaches it.     *)
(***************************************************************************)
VARIABLES envs, calls, out, status, err, steps, cur, ev, left,
          tokens, min_bp, pstage, parsed, evaluated, dumped, reparsed,
          lexer, yielded, console

vars == <<envs, calls, out, status, err, steps, cur, ev, left,
          tokens, min_bp, pstage, parsed, evaluated, dumped, reparsed,
          lexer, yielded, console>>

\* The variables of the lexer and of the command tokenize (see SpecLex).
lvars == <<lexer, yielded, console>>

\* struct Lexer
Lexer(file_content, chars, line_count) ==
    [file_content |-> file_content, chars |-> chars, line_count |-> line_count]

NoLexer ==
    /\ lexer = Lexer(<<>>, 0, 1)
    /\ yielded = <<>>
    /\ console = NoConsole

\* The variables of the parser (see SpecParse).
pvars == <<tokens, min_bp, pstage, parsed, evaluated, dumped, reparsed>>

NoParser ==
    /\ tokens = <<>>
    /\ min_bp = 0
    /\ pstage = "none"
    /\ parsed = ParseOk(<<>>, <<>>)
    /\ evaluated = Ok(Nil, new)
    /\ dumped = NoDump
    /\ reparsed = ParseOk(<<>>, <<>>)

NoStatement == Statement("", <<>>, None, <<>>)

Init ==
    /\ envs = new
    /\ calls = <<>>
    /\ out = <<>>
    /\ status = "running"
    /\ err = NoError
    /\ steps = 0
    /\ cur = NoStatement
    /\ ev = "new"
    /\ left = NoCall
    /\ NoParser
    /\ NoLexer

CanStep == status = "running" /\ steps < MaxSteps

\* The arms without `?`: an Err is dropped and the loop goes on.
ReturnedIgnoringError(stmt, r, after) ==
    /\ steps' = steps + 1
    /\ cur' = stmt
    /\ ev' = stmt.k
    /\ left' = left
    /\ UNCHANGED pvars
    /\ UNCHANGED lvars
    /\ envs' = IF r.ok THEN after ELSE r.envs
    /\ calls' = IF r.ok THEN Recorded(calls, stmt, envs, r.envs) ELSE calls
    /\ status' = "running"
    /\ err' = IF r.ok THEN err ELSE r.err

\* What every arm does with the Result of its expression: `?` returns the
\* Err to the caller of this evaluate, the enclosing Block if there is one.
Returned(stmt, r, after) ==
    /\ steps' = steps + 1
    /\ cur' = stmt
    /\ ev' = stmt.k
    /\ left' = left
    /\ UNCHANGED pvars
    /\ UNCHANGED lvars
    /\ IF r.ok
       THEN /\ envs' = after
            /\ calls' = Recorded(calls, stmt, envs, r.envs)
            /\ status' = "running"
            /\ err' = err
       ELSE /\ envs' = r.envs
            /\ calls' = calls
            /\ status' = IF calls = <<>> THEN "error" ELSE "unwinding"
            /\ err' = r.err

\* StatementTree::Print(expr)
ExecPrint(expr) ==
    LET r == evaluate_expr(expr, envs)
    IN  /\ CanStep
        /\ Returned(StmtPrint(expr), r, r.envs)
        /\ out' = IF r.ok THEN Append(out, r.v) ELSE out

\* StatementTree::Expr(expr)
ExecExpr(expr) ==
    LET r == evaluate_expr(expr, envs)
    IN  /\ CanStep
        /\ Returned(StmtExpr(expr), r, r.envs)
        /\ out' = out

\* VarDeclaration that declares the name first, as nil, and evaluates the
\* initializer afterwards.
ExecVarDeclarationDeclaresFirst(ident, expr) ==
    LET r == IF expr = None THEN Ok(Nil, envs)
             ELSE evaluate_expr(expr[1], insert(envs, ident, Nil))
    IN  /\ CanStep
        /\ Returned(StmtVarDeclaration(ident, expr), r, insert(r.envs, ident, r.v))
        /\ out' = out

\* StatementTree::VarDeclaration { ident, expr }
ExecVarDeclaration(ident, expr) ==
    LET r == IF expr = None THEN Ok(Nil, envs) ELSE evaluate_expr(expr[1], envs)
    IN  /\ CanStep
        /\ Returned(StmtVarDeclaration(ident, expr), r, insert(r.envs, ident, r.v))
        /\ out' = out

\* StatementTree::Block(statements): push_block and the call of evaluate.
EnterBlock ==
    /\ CanStep
    /\ Len(calls) < MaxDepth
    /\ envs' = push_block(envs)
    /\ calls' = Append(calls, Call(Len(envs), envs))
    /\ steps' = steps + 1
    /\ cur' = StmtBlock(<<>>)
    /\ ev' = "EnterBlock"
    /\ UNCHANGED <<out, status, err, left>>
    /\ UNCHANGED pvars
    /\ UNCHANGED lvars

\* StatementTree::Block(statements): evaluate returned Ok(()), pop_block.
ExitBlock ==
    /\ status = "running"
    /\ calls /= <<>>
    /\ envs' = pop_block(envs)
    /\ calls' = SubSeq(calls, 1, Len(calls) - 1)
    /\ left' = calls[Len(calls)]
    /\ ev' = "ExitBlock"
    /\ UNCHANGED <<out, status, err, steps, cur>>
    /\ UNCHANGED pvars
    /\ UNCHANGED lvars

\* StatementTree::Block(statements): evaluate returned Err and `?` returns
\* it from the enclosing evaluate; line 44 is not reached.
PropagateError ==
    /\ status = "unwinding"
    /\ calls /= <<>>
    /\ calls' = SubSeq(calls, 1, Len(calls) - 1)
    /\ left' = calls[Len(calls)]
    /\ status' = IF Len(calls) = 1 THEN "error" ELSE "unwinding"
    /\ ev' = "PropagateError"
    /\ UNCHANGED <<envs, out, err, steps, cur>>
    /\ UNCHANGED pvars
    /\ UNCHANGED lvars

\* The loop of the outermost evaluate is over: Ok(()).
Finish ==
    /\ status = "running"
    /\ calls = <<>>
    /\ status' = "ok"
    /\ ev' = "Finish"
    /\ UNCHANGED <<envs, calls, out, err, steps, cur, left>>
    /\ UNCHANGED pvars
    /\ UNCHANGED lvars

Next ==
    \/ \E expr \in PrintPool : ExecPrint(expr)
    \/ \E expr \in ExprPool : ExecExpr(expr)
    \/ \E ident \in Names, expr \in InitPool : ExecVarDeclaration(ident, expr)
    \/ EnterBlock
    \/ ExitBlock
    \/ PropagateError
    \/ Finish

Spec == Init /\ [][Next]_vars

(***************************************************************************)
(* Environments on its own: its methods called in any order, as any code   *)
(* of interpret.rs could call them.  get_mut is called with the value the  *)
(* caller stores at the place it returns.                                  *)
(***************************************************************************)
EnvValues == {Nil, Number(F64Lit(1)), Number(F64Lit(2))}

EnvCalled(name) ==
    /\ ev' = name
    /\ UNCHANGED <<calls, out, status, err, steps, cur, left>>
    /\ UNCHANGED pvars
    /\ UNCHANGED lvars

EnvPushBlock ==
    /\ Len(envs) <= MaxDepth
    /\ envs' = push_block(envs)
    /\ EnvCalled("push_block")

EnvPopBlock ==
    /\ envs' = pop_block(envs)
    /\ EnvCalled("pop_block")

EnvInsert(ident, value) ==
    /\ envs' = insert(envs, ident, value)
    /\ EnvCalled("insert")

EnvGetMut(ident, value) ==
    /\ get_mut(envs, ident) /= None
    /\ envs' = [envs EXCEPT ![get_mut(envs, ident)[1]] = [@ EXCEPT ![ident] = value]]
    /\ EnvCalled("get_mut")

NextEnv ==
    \/ EnvPushBlock
    \/ EnvPopBlock
    \/ \E ident \in Names, value \in EnvValues : EnvInsert(ident, value)
    \/ \E ident \in Names, value \in EnvValues : EnvGetMut(ident, value)

SpecEnv == Init /\ [][NextEnv]_vars

(***************************************************************************)
(* The parser on a token stream, as the driver runs it: parse_expr at      *)
(* min_bp 0 (commands parse and evaluate) or parse_statements (command     *)
(* run), and evaluate_expr on the tree parse_expr returned.  One call of   *)
(* parse_statement, as parse_statements makes it, is a step of its own.    *)
(* The tree parse_expr returned can also be written with its Display and   *)
(* the text lexed and parsed again.                                        *)
(*   tokens     the token stream                                           *)
(*   min_bp     the min_bp parse_expr was called with                      *)
(*   pstage     "tokens", then the function that ran last                  *)
(*   parsed     what the parser returned                                   *)
(*   evaluated  what evaluate_expr returned                                *)
(*   dumped     what Display wrote of the tree                             *)
(*   reparsed   what parse_expr returned for the text written              *)
(*   envs       the environments the expression is evaluated in            *)
(***************************************************************************)
\* Tokens one stream of statements holds.
MaxTokens == 4

\* The largest min_bp parse_expr is called with on the shortest streams; the
\* binding powers of the operators go up to 5.
MaxMinBp == 6

InfixKinds ==
    {"Star", "Slash", "Plus", "Minus", "Less", "LessEqual", "Greater",
     "GreaterEqual", "EqualEqual", "BangEqual"}

OperatorKinds == InfixKinds \cup {"Equal"}

OperandTokens ==
    {TokenNumber(1), TokenIdentifier(NameA), TokenIdentifier(NameB), Tok("Nil")}

ValueTokens ==
    {Tok("Nil"), Tok("True"), Tok("False"), TokenNumber(1), TokenNumber(2),
     TokenString(<<"s">>), TokenString(<<"t">>)}

\* a OP1 b OP2 c
TripleStreams ==
    {<<a, Tok(op1), b, Tok(op2), c>> :
        a \in OperandTokens, b \in OperandTokens, c \in OperandTokens,
        op1 \in OperatorKinds, op2 \in OperatorKinds}

\* The operands of `a OP b` and of `OP a`: the literals, 0 and "" among
\* them, and the names.
PairOperands ==
    ValueTokens
        \cup {TokenNumber(0), TokenString(<<>>), TokenIdentifier(NameA),
              TokenIdentifier(NameB)}

\* a OP b
PairStreams ==
    {<<a, Tok(op), b>> : a \in PairOperands, b \in PairOperands, op \in InfixKinds}

\* -a   !a
UnaryStreams == {<<Tok(op), a>> : op \in {"Minus", "Bang"}, a \in PairOperands}

\* -a OP1 (1) OP2 !b
CompoundStream(op1, op2) ==
    <<Tok("Minus"), TokenIdentifier(NameA), Tok(op1),
      Tok("LeftParen"), TokenNumber(1), Tok("RightParen"), Tok(op2),
      Tok("Bang"), TokenIdentifier(NameB)>>

CompoundStreams == {CompoundStream(op1, op2) : op1 \in InfixKinds, op2 \in InfixKinds}

\* 0 / 0 is NaN.
NaNStreams ==
    LET nan == <<TokenNumber(0), Tok("Slash"), TokenNumber(0)>>
    IN  UNION {{nan \o <<Tok(op)>> \o nan, nan \o <<Tok(op), TokenNumber(1)>>,
                <<TokenNumber(1), Tok(op)>> \o nan} :
                    op \in {"EqualEqual", "BangEqual"}}

\* The right-hand sides of `x = y = v`: tokens, tree and value of v.
Rhs(toks, tree, value) == [toks |-> toks, tree |-> tree, value |-> value]

RhsPool ==
    {Rhs(<<TokenNumber(1)>>, One, Number(F64Lit(1))),
     Rhs(<<TokenString(<<"s">>)>>, PrimaryString(<<"s">>), String(<<"s">>)),
     Rhs(<<Tok("True")>>, PrimaryTrue, Boolean(TRUE)),
     Rhs(<<TokenNumber(1), Tok("Plus"), TokenNumber(2)>>,
         Binary("Term::Plus", One, Two), Number(F64Lit(3)))}

AssignStream(x, y, rhs) ==
    <<TokenIdentifier(x), Tok("Equal"), TokenIdentifier(y), Tok("Equal")>> \o rhs.toks

AssignStreams == {AssignStream(x, y, rhs) : x \in Names, y \in Names, rhs \in RhsPool}

StatementAlphabet ==
    {Tok("Print"), Tok("Var"), TokenIdentifier(NameA), Tok("Equal"), TokenNumber(1),
     Tok("Semicolon"), Tok("LeftBrace"), Tok("RightBrace")}

StatementStreams == UNION {[1..n -> StatementAlphabet] : n \in 0..MaxTokens}

\* A well-formed statement: its tokens and its tree.
WellFormed(toks, tree) == [toks |-> toks, tree |-> tree]

\* print 1;   var a;   a = 1;
SimpleStatements ==
    {WellFormed(<<Tok("Print"), TokenNumber(1), Tok("Semicolon")>>, StmtPrint(One)),
     WellFormed(<<Tok("Var"), TokenIdentifier(NameA), Tok("Semicolon")>>,
                StmtVarDeclaration(NameA, None)),
     WellFormed(<<TokenIdentifier(NameA), Tok("Equal"), TokenNumber(1), Tok("Semicolon")>>,
                StmtExpr(Assignment(NameA, One)))}

RECURSIVE TokensOf(_)
TokensOf(ss) == IF ss = <<>> THEN <<>> ELSE Head(ss).toks \o TokensOf(Tail(ss))

\* { s1 ... sn }
BlockOf(ss) ==
    WellFormed(<<Tok("LeftBrace")>> \o TokensOf(ss) \o <<Tok("RightBrace")>>,
               StmtBlock([i \in DOMAIN ss |-> ss[i].tree]))

\* The blocks of at most two statements of pool.
BlocksOf(pool) ==
    {BlockOf(<<>>)} \cup {BlockOf(<<s1>>) : s1 \in pool}
        \cup {BlockOf(<<s1, s2>>) : s1 \in pool, s2 \in pool}

\* The statements of a block: the simple ones, {} and { print 1; }.
BlockBodies ==
    SimpleStatements
        \cup {BlockOf(<<>>),
              BlockOf(<<WellFormed(<<Tok("Print"), TokenNumber(1), Tok("Semicolon")>>,
                                   StmtPrint(One))>>)}

BlockInputs == BlocksOf(BlockBodies)

\* What follows a block in the stream.
Trails == {<<>>, <<Tok("Print")>>, <<Tok("RightBrace")>>}

BlockStreams == {b.toks \o trail : b \in BlockInputs, trail \in Trails}

\* -x = v and !x = v
PrefixAssignStreams ==
    {<<Tok(op), TokenIdentifier(x), Tok("Equal"), v>> :
        op \in {"Minus", "Bang"}, x \in Names, v \in ValueTokens}

\* (x = v)
GroupedAssignment(x, v) ==
    <<Tok("LeftParen"), TokenIdentifier(x), Tok("Equal"), v, Tok("RightParen")>>

\* l OP (a = v), the left operand a literal or a grouped assignment.
OrderStreams ==
    {l \o <<Tok(op)>> \o GroupedAssignment(NameA, v) :
        l \in {<<Tok("Nil")>>, <<TokenString(<<"s">>)>>, <<TokenNumber(1)>>,
               GroupedAssignment(NameA, TokenNumber(1)),
               GroupedAssignment(NameB, TokenString(<<"s">>))},
        op \in InfixKinds,
        v \in {TokenNumber(2), TokenString(<<"t">>)}}

\* One operand, and nothing.
OperandStreams == {<<>>} \cup {<<a>> : a \in ValueTokens \cup OperandTokens}

TokenStreams ==
    TripleStreams \cup CompoundStreams \cup PairStreams \cup UnaryStreams
        \cup NaNStreams \cup AssignStreams \cup BlockStreams \cup StatementStreams
        \cup OperandStreams \cup PrefixAssignStreams \cup OrderStreams

\* var a; var b = "t";
Declared == <<[ident \in Names |-> IF ident = NameA THEN Nil ELSE String(<<"t">>)]>>

\* var a = 2;
DeclaredA == <<[ident \in {NameA} |-> Number(F64Lit(2))]>>

InitParse ==
    /\ envs \in {new, Declared, DeclaredA}
    /\ calls = <<>>
    /\ out = <<>>
    /\ status = "running"
    /\ err = NoError
    /\ steps = 0
    /\ cur = NoStatement
    /\ ev = "new"
    /\ left = NoCall
    /\ tokens \in TokenStreams
    /\ min_bp = 0
    /\ pstage = "tokens"
    /\ parsed = ParseOk(<<>>, <<>>)
    /\ evaluated = Ok(Nil, new)
    /\ dumped = NoDump
    /\ reparsed = ParseOk(<<>>, <<>>)
    /\ NoLexer

\* parse_expr is called with min_bp 0 by its callers and with the binding
\* power of an operator by itself, for an operand: a stream that is empty
\* or holds one token more, what is left for the last operand, is parsed
\* with each min_bp.
MinBps(toks) == IF Len(toks) <= 1 THEN 0..MaxMinBp ELSE {0}

ParseExpr ==
    /\ pstage = "tokens"
    /\ \E bp \in MinBps(tokens) :
          /\ min_bp' = bp
          /\ parsed' = parse_expr(tokens, bp)
    /\ pstage' = "parse_expr"
    /\ UNCHANGED <<envs, calls, out, status, err, steps, cur, ev, left, tokens, evaluated,
                   dumped, reparsed>>
    /\ UNCHANGED lvars

ParseStatements ==
    /\ pstage = "tokens"
    /\ parsed' = parse_statements(tokens)
    /\ pstage' = "parse_statements"
    /\ UNCHANGED <<envs, calls, out, status, err, steps, cur, ev, left, tokens, min_bp,
                   evaluated, dumped, reparsed>>
    /\ UNCHANGED lvars

ParseStatement ==
    /\ pstage = "tokens"
    /\ parsed' = parse_statement(tokens)
    /\ pstage' = "parse_statement"
    /\ UNCHANGED <<envs, calls, out, status, err, steps, cur, ev, left, tokens, min_bp,
                   evaluated, dumped, reparsed>>
    /\ UNCHANGED lvars

EvaluateParsed ==
    /\ pstage = "parse_expr"
    /\ parsed.st = "ok"
    /\ evaluated' = evaluate_expr(parsed.val[1], envs)
    /\ pstage' = "evaluate"
    /\ UNCHANGED <<envs, calls, out, status, err, steps, cur, ev, left, tokens, min_bp,
                   parsed, dumped, reparsed>>
    /\ UNCHANGED lvars

\* println!("{token_tree}") of the tree parse_expr returned.
DisplayParsed ==
    /\ pstage = "parse_expr"
    /\ parsed.st = "ok"
    /\ dumped' = ExpressionTreeDisplay(parsed.val[1])
    /\ pstage' = "display"
    /\ UNCHANGED <<envs, calls, out, status, err, steps, cur, ev, left, tokens, min_bp,
                   parsed, evaluated, reparsed>>
    /\ UNCHANGED lvars

\* The text printed goes through the Lexer and parse_expr again.
ParseDumped ==
    /\ pstage = "display"
    /\ dumped.st = "ok"
    /\ reparsed' = parse_expr(tokenize(dumped.text).tokens, 0)
    /\ pstage' = "reparse"
    /\ UNCHANGED <<envs, calls, out, status, err, steps, cur, ev, left, tokens, min_bp,
                   parsed, evaluated, dumped>>
    /\ UNCHANGED lvars

NextParse ==
    \/ ParseExpr
    \/ ParseStatements
    \/ ParseStatement
    \/ EvaluateParsed
    \/ DisplayParsed
    \/ ParseDumped

SpecParse == InitParse /\ [][NextParse]_vars

(***************************************************************************)
(* The Lexer on one source, next called again and again, and the command   *)
(* tokenize run on the same source.                                        *)
(*   lexer    the Lexer                                                    *)
(*   yielded  what the calls of next returned so far, each with the        *)
(*            characters consumed and the line counter after it            *)
(*   console  the output and the exit code of the command tokenize         *)
(***************************************************************************)
\* Characters one source holds.
MaxChars == 4

\* The characters of the sources: punctuation, `=` (one or two characters),
\* a digit, the point, a letter, the quote, a character no token starts
\* with, the line feed and the slash.
Alphabet == {"(", "=", "1", ".", "a", "\"", "@", "\n", "/"}

\* Sources of three digit runs with a `.` between them.
NumberSources ==
    {<<"1", ".", "1", ".", "1">>,
     <<"1", "2", ".", "3", ".", "4", "5">>,
     <<"7", ".", "0", "5", ".", "9">>}

Sources == UNION {[1..n -> Alphabet] : n \in 0..MaxChars} \cup NumberSources

\* Calls of next that returned None.
Exhausted == Cardinality({i \in DOMAIN yielded : yielded[i].item.st = "none"})

InitLex ==
    /\ envs = new
    /\ calls = <<>>
    /\ out = <<>>
    /\ status = "running"
    /\ err = NoError
    /\ steps = 0
    /\ cur = NoStatement
    /\ ev = "new"
    /\ left = NoCall
    /\ NoParser
    /\ \E file_content \in Sources : lexer = Lexer(file_content, 0, 1)
    /\ yielded = <<>>
    /\ console = NoConsole

\* One call of Lexer::next.
LexNext ==
    /\ ~console.ran
    /\ Exhausted < 2
    /\ LET lexed == next(lexer.file_content, lexer.chars, lexer.line_count)
       IN  /\ lexer' = Lexer(lexer.file_content, lexed.chars, lexed.line_count)
           /\ yielded' = Append(yielded, lexed)
    /\ UNCHANGED <<envs, calls, out, status, err, steps, cur, ev, left, console>>
    /\ UNCHANGED pvars

\* The command tokenize on the source.
TokenizeCommand ==
    /\ ~console.ran
    /\ yielded = <<>>
    /\ console' = main_tokenize(lexer.file_content)
    /\ UNCHANGED <<envs, calls, out, status, err, steps, cur, ev, left, lexer, yielded>>
    /\ UNCHANGED pvars

NextLex ==
    \/ LexNext
    \/ TokenizeCommand

SpecLex == InitLex /\ [][NextLex]_vars

(***************************************************************************)
(* The properties.                                                         *)
(***************************************************************************)
BlockLeft == ev \in {"ExitBlock", "PropagateError"}

Read(ident) == evaluate_expr(PrimaryIdentifier(ident), envs)

\* C1: when the evaluation of a Block has returned, with Ok or with an
\* EvaluationError, the environment stack has as many frames as it had
\* before the Block was entered.
C1_BlockRestoresFrames == BlockLeft => Len(envs) = left.base

\* C2: a name declared by a VarDeclaration of a Block and bound in no
\* enclosing frame is not visible once the Block has ended: in the statement
\* after the Block reading it gives UndefinedVariable and assigning to it
\* gives UndeclaredVariable.
C2_ScopeIsolation ==
    ev = "ExitBlock" =>
        \A x \in DOMAIN left.decl :
            Visible(left.snap, x) = None =>
                /\ Read(x) = Err(UndefinedVariable(x), envs)
                /\ evaluate_expr(Assignment(x, One), envs)
                       = Err(UndeclaredVariable(x), envs)

C2_Witness ==
    /\ ev = "ExitBlock"
    /\ \E x \in DOMAIN left.decl : Visible(left.snap, x) = None

\* C3, as stated: after a Block that declared a name bound in an enclosing
\* frame has ended, that name has the value it had when the Block was
\* entered.
C3_OuterValueAsAtEntry ==
    ev = "ExitBlock" =>
        \A x \in DOMAIN left.decl :
            Visible(left.snap, x) /= None => Read(x) = Ok(Visible(left.snap, x)[1], envs)

\* C3, amended: from the declaration on, reads of the name inside the Block
\* see the binding of a frame of the Block and the binding of the enclosing
\* frames keeps the value it had when the declaration was executed; after
\* the Block has ended the name has that value.
C3_Shadowing ==
    /\ \A i \in DOMAIN calls :
         \A x \in DOMAIN calls[i].decl :
            calls[i].decl[x] /= None =>
                /\ Visible(SubSeq(envs, 1, calls[i].base), x) = calls[i].decl[x]
                /\ InnermostFrame(envs, x) > calls[i].base
                /\ Read(x) = Ok(envs[InnermostFrame(envs, x)][x], envs)
    /\ BlockLeft =>
         \A x \in DOMAIN left.decl :
            left.decl[x] /= None =>
                /\ Visible(SubSeq(envs, 1, left.base), x) = left.decl[x]
                /\ ev = "ExitBlock" => Read(x) = Ok(left.decl[x][1], envs)

C3_Witness ==
    /\ ev = "ExitBlock"
    /\ \E x \in left.asgIn :
         /\ left.decl[x] = Some(Nil)
         /\ Read(x) = Ok(Nil, envs)

\* C4: a statement `x = literal;` overwrites the binding of x in the
\* innermost frame that binds x and changes nothing else: no other binding,
\* no binding of x in another frame, and no frame gains a binding.
C4_AssignmentStep ==
    (ev' = "Expr" /\ status' = "running" /\ steps' = steps + 1
        /\ IsSimpleAssignment(cur')) =>
        LET x == cur'.e[1].s
            v == Number(cur'.e[1].kids[1].n)
            i == InnermostFrame(envs, x)
        IN  /\ i > 0
            /\ envs' = [envs EXCEPT ![i] = [@ EXCEPT ![x] = v]]

\* C4: the value such a statement assigned inside a Block to a binding of
\* an enclosing frame is the value of the name after the Block has ended.
C4_ObservedAfterBlock ==
    ev = "ExitBlock" =>
        \A x \in DOMAIN left.outerAsg : Read(x) = Ok(left.outerAsg[x], envs)

C4_AssignmentOverwritesInnermost ==
    []C4_ObservedAfterBlock /\ [][C4_AssignmentStep]_vars

C4_Witness ==
    /\ ev = "ExitBlock"
    /\ \E x \in DOMAIN left.outerAsg : Visible(left.snap, x) /= Some(left.outerAsg[x])

\* C9: the environment stack always holds at least one frame; its first
\* frame is never removed (no binding of it is ever lost); and pop_block
\* called with only the global frame left changes nothing.
C9_GlobalFrameStep ==
    /\ Len(envs) >= 1 /\ Len(envs') >= 1 => DOMAIN envs[1] \subseteq DOMAIN envs'[1]
    /\ (ev' = "pop_block" /\ Len(envs) = 1) => envs' = envs

C9_GlobalFrameKept == [](Len(envs) >= 1) /\ [][C9_GlobalFrameStep]_vars

C9_Witness ==
    /\ ev = "pop_block"
    /\ Len(envs) = 1
    /\ DOMAIN envs[1] /= {}

\* C5: `x = y = v` parses to Assignment(x, Assignment(y, v)); evaluated
\* with x and y declared it returns the value of v and leaves x and y bound
\* to that value.
C5_AssignmentRightAssociative ==
    (/\ pstage \in {"parse_expr", "evaluate"}
     /\ Len(tokens) >= 5
     /\ tokens[1].k = "Identifier"
     /\ tokens[3].k = "Identifier"
     /\ tokens[2].k = "Equal"
     /\ tokens[4].k = "Equal") =>
        LET x == tokens[1].s
            y == tokens[3].s
        IN  \A rhs \in RhsPool :
                tokens = AssignStream(x, y, rhs) =>
                    /\ parsed = ParseOk(<<Assignment(x, Assignment(y, rhs.tree))>>, <<>>)
                    /\ (pstage = "evaluate" /\ envs = Declared) =>
                         /\ evaluated.ok
                         /\ evaluated.v = rhs.value
                         /\ Visible(evaluated.envs, x) = Some(rhs.value)
                         /\ Visible(evaluated.envs, y) = Some(rhs.value)
                         /\ \A i \in DOMAIN envs :
                                DOMAIN evaluated.envs[i] = DOMAIN envs[i]

C5_Witness ==
    /\ pstage = "evaluate"
    /\ envs = Declared
    /\ tokens = AssignStream(NameA, NameB, Rhs(<<TokenNumber(1)>>, One, Number(F64Lit(1))))
    /\ evaluated.v = Number(F64Lit(1))

\* C6: `a != b` evaluates to the negation of what `a == b` evaluates to.
C6_BangEqualNegatesEqualEqual ==
    (pstage = "evaluate" /\ parsed.val[1].k = "Equality::BangEqual" /\ evaluated.ok) =>
        LET lhs == parsed.val[1].kids[1]
            rhs == parsed.val[1].kids[2]
            eq  == evaluate_expr(Binary("Equality::EqualEqual", lhs, rhs), envs)
        IN  /\ eq.ok
            /\ evaluated.v = Boolean(~eq.v.b)

\* The binding powers of the table of the specification.
TableBp(k) ==
    CASE k \in {"EqualEqual", "BangEqual"} -> 2
      [] k \in {"Less", "LessEqual", "Greater", "GreaterEqual"} -> 3
      [] k \in {"Plus", "Minus"} -> 4
      [] k \in {"Star", "Slash"} -> 5
      [] k = "Equal" -> 1

\* The tree of one operand token.
OperandTree(token) ==
    CASE token.k = "Number" -> PrimaryNumber(token.n)
      [] token.k = "Identifier" -> PrimaryIdentifier(token.s)
      [] token.k = "Nil" -> PrimaryNil

\* The node of operator op over the trees lhs and rhs.
OperatorTree(op, lhs, rhs) ==
    CASE op = "Equal" -> Assignment(lhs.s, rhs)
      [] op = "Star" -> Binary("Factor::Star", lhs, rhs)
      [] op = "Slash" -> Binary("Factor::Slash", lhs, rhs)
      [] op = "Plus" -> Binary("Term::Plus", lhs, rhs)
      [] op = "Minus" -> Binary("Term::Minus", lhs, rhs)
      [] op = "Less" -> Binary("Comparison::Less", lhs, rhs)
      [] op = "LessEqual" -> Binary("Comparison::LessEqual", lhs, rhs)
      [] op = "Greater" -> Binary("Comparison::Greater", lhs, rhs)
      [] op = "GreaterEqual" -> Binary("Comparison::GreaterEqual", lhs, rhs)
      [] op = "EqualEqual" -> Binary("Equality::EqualEqual", lhs, rhs)
      [] op = "BangEqual" -> Binary("Equality::BangEqual", lhs, rhs)

\* parse_expr has run on a stream a OP1 b OP2 c of single-token operands.
ParsedTriple ==
    /\ pstage = "parse_expr"
    /\ Len(tokens) = 5
    /\ \A i \in {1, 3, 5} : tokens[i] \in OperandTokens
    /\ \A i \in {2, 4} : tokens[i].k \in OperatorKinds

\* parse_expr has run on the stream -a OP1 (1) OP2 !b.
ParsedCompound ==
    /\ pstage = "parse_expr"
    /\ Len(tokens) = 9
    /\ tokens[3].k \in InfixKinds
    /\ tokens[7].k \in InfixKinds
    /\ tokens = CompoundStream(tokens[3].k, tokens[7].k)

\* OP1 over a and (OP2 over b and c).
GroupsRight(op1, op2, a, b, c) ==
    ParseOk(<<OperatorTree(op1, a, OperatorTree(op2, b, c))>>, <<>>)

\* OP2 over (OP1 over a and b) and c.
GroupsLeft(op1, op2, a, b, c) ==
    ParseOk(<<OperatorTree(op2, OperatorTree(op1, a, b), c)>>, <<>>)

MinusA == Unary("Unary::Minus", PrimaryIdentifier(NameA))

GroupOne == PrimaryGroup(One)

BangB == Unary("Unary::Bang", PrimaryIdentifier(NameB))

C8_LeftAssociative ==
    /\ (/\ ParsedTriple
        /\ tokens[2].k \in InfixKinds
        /\ tokens[4].k \in InfixKinds
        /\ TableBp(tokens[2].k) = TableBp(tokens[4].k)) =>
          parsed = GroupsLeft(tokens[2].k, tokens[4].k, OperandTree(tokens[1]),
                              OperandTree(tokens[3]), OperandTree(tokens[5]))
    /\ (ParsedCompound /\ TableBp(tokens[3].k) = TableBp(tokens[7].k)) =>
          parsed = GroupsLeft(tokens[3].k, tokens[7].k, MinusA, GroupOne, BangB)

C8_Witness ==
    /\ ParsedTriple
    /\ tokens[2].k = "Minus"
    /\ tokens[4].k = "Plus"
    /\ parsed.st = "ok"
    /\ parsed.val[1].k = "Term::Plus"
    /\ parsed.val[1].kids[1].k = "Term::Minus"

\* C10: parse_statements returns Ok or a parse error for every token
\* stream; it never panics.
C10_ParseStatementsTotal == pstage = "parse_statements" => parsed.st \in {"ok", "err"}

\* C11: a Print, VarDeclaration or Expr statement that parse_statement
\* accepts ends with a Semicolon token: the last token it consumed is one
\* (a stream that ends right after the expression is not accepted).
C11_SemicolonRequired ==
    (/\ pstage = "parse_statement"
     /\ parsed.st = "ok"
     /\ parsed.val /= None
     /\ parsed.val[1].k \in {"Print", "VarDeclaration", "Expr"}) =>
        LET consumed == Len(tokens) - Len(parsed.rest)
        IN  /\ consumed >= 1
            /\ tokens[consumed].k = "Semicolon"

\* C12: the tokens `{ s1 ... sn }` of well-formed statements, n >= 0,
\* blocks among them, parse to Block([s1, ..., sn]) and the tokens after the
\* closing RightBrace are left in the stream.
C12_BlockParses ==
    (pstage = "parse_statement" /\ tokens /= <<>> /\ Head(tokens).k = "LeftBrace") =>
        \A b \in BlockInputs, trail \in Trails :
            tokens = b.toks \o trail => parsed = ParseOk(<<b.tree>>, trail)

\* The Result of the expression of statement stmt evaluated in frames.
ResultOf(stmt, frames) ==
    IF stmt.e = None THEN Ok(Nil, frames) ELSE evaluate_expr(stmt.e[1], frames)

\* One step of a program: a statement that fails stops the program with
\* its Err, having written nothing; a Print that succeeds appends its value
\* to the output and no other step writes; once an Err is on its way no
\* statement runs, nothing is written and no binding changes.
C13_Step ==
    /\ status /= "running" =>
          /\ status' /= "running"
          /\ out' = out
          /\ envs' = envs
          /\ steps' = steps
          /\ err' = err
    /\ (status = "running" /\ steps' = steps + 1 /\ ev' /= "EnterBlock") =>
          LET r == ResultOf(cur', envs)
          IN  IF r.ok
              THEN /\ status' = "running"
                   /\ out' = IF cur'.k = "Print" THEN Append(out, r.v) ELSE out
              ELSE /\ status' \in {"unwinding", "error"}
                   /\ err' = r.err
                   /\ out' = out
                   /\ envs' = r.envs
    /\ (status = "running" /\ steps' = steps) => out' = out

\* C13: a program runs its statements in order and stops at the first
\* runtime error: the output is the values of the Print statements run so
\* far, in their order, what the statements before the failing one did is
\* kept, and no statement after it runs, in its block or in an enclosing one.
C13_SourceOrderStopsAtError ==
    /\ [](status \in {"unwinding", "error"} => err /= NoError)
    /\ [][C13_Step]_vars

\* A Print ran, then a statement inside a Block failed and the Err left
\* the Block.
C13_Witness ==
    /\ status = "error"
    /\ ev = "PropagateError"
    /\ out /= <<>>
    /\ err = ExpectedNumber

\* The frames of envs that bind ident.
FramesBinding(ident) == {i \in DOMAIN envs : ident \in DOMAIN envs[i]}

\* What reading ident gives in the current environments.
C14_Read ==
    \A x \in Names :
        IF FramesBinding(x) = {}
        THEN Read(x) = Err(UndefinedVariable(x), envs)
        ELSE \E i \in FramesBinding(x) :
                /\ \A j \in FramesBinding(x) : j <= i
                /\ Read(x) = Ok(envs[i][x], envs)

\* The statement `print x;`.
C14_PrintStep ==
    (status = "running" /\ steps' = steps + 1 /\ cur'.k = "Print"
        /\ cur'.e[1].k = "Primary::Identifier") =>
        LET x == cur'.e[1].s
        IN  /\ envs' = envs
            /\ IF FramesBinding(x) = {}
               THEN /\ status' \in {"unwinding", "error"}
                    /\ err' = UndefinedVariable(x)
                    /\ out' = out
               ELSE /\ status' = "running"
                    /\ \E i \in FramesBinding(x) :
                          /\ \A j \in FramesBinding(x) : j <= i
                          /\ out' = Append(out, envs[i][x])

\* C14: reading an identifier gives the value of the innermost frame that
\* binds it, and UndefinedVariable(name) when no frame binds it; the
\* environments are left as they were.
C14_ReadInnermostOrUndefined == []C14_Read /\ [][C14_PrintStep]_vars

\* `print a;` ran where two frames bind a to different values.
C14_Witness ==
    /\ ev = "Print"
    /\ cur = StmtPrint(PrimaryIdentifier(NameA))
    /\ status = "running"
    /\ Len(envs) = 2
    /\ NameA \in DOMAIN envs[1]
    /\ NameA \in DOMAIN envs[2]
    /\ envs[1][NameA] /= envs[2][NameA]
    /\ out = <<envs[2][NameA]>>

\* The statement `var x;` or `var x = init;` that succeeded.
C15_VarDeclarationStep ==
    (status = "running" /\ steps' = steps + 1 /\ cur'.k = "VarDeclaration"
        /\ status' = "running") =>
        LET x     == cur'.ident
            r     == ResultOf(cur', envs)
            value == IF cur'.e = None THEN Nil ELSE r.v
            top   == Len(envs)
        IN  /\ Len(envs') = top
            /\ \A i \in 1..(top - 1) : envs'[i] = r.envs[i]
            /\ DOMAIN envs'[top] = DOMAIN r.envs[top] \cup {x}
            /\ envs'[top][x] = value
            /\ \A y \in DOMAIN r.envs[top] \ {x} : envs'[top][y] = r.envs[top][y]

\* C15: a VarDeclaration binds the name in the innermost frame only, to Nil
\* without an initializer and to the initializer's value with one; a binding
\* of the name in that frame is replaced, the outer frames are unchanged.
C15_VarDeclarationInnermost == [][C15_VarDeclarationStep]_vars

\* `var a = 2;` ran in a Block while the global frame binds a to 1.
C15_Witness ==
    /\ ev = "VarDeclaration"
    /\ cur = StmtVarDeclaration(NameA, Some(Two))
    /\ status = "running"
    /\ Len(envs) = 2
    /\ NameA \in DOMAIN envs[1]
    /\ envs[1][NameA] = Number(F64Lit(1))
    /\ NameA \in DOMAIN envs[2]
    /\ envs[2][NameA] = Number(F64Lit(2))

\* The operand token evaluates: a literal, or a name that is bound.
Evaluates(token) ==
    \/ token.k \in {"Nil", "True", "False", "Number", "String"}
    \/ token.k = "Identifier" /\ FramesBinding(token.s) /= {}

\* The value of an operand token that evaluates.
ValueOf(token) ==
    CASE token.k = "Nil" -> Nil
      [] token.k = "True" -> Boolean(TRUE)
      [] token.k = "False" -> Boolean(FALSE)
      [] token.k = "Number" -> Number(token.n)
      [] token.k = "String" -> String(token.s)
      [] token.k = "Identifier" -> Visible(envs, token.s)[1]

\* `a OP b` was evaluated, a and b operands that evaluate.
EvaluatedPair ==
    /\ pstage = "evaluate"
    /\ Len(tokens) = 3
    /\ tokens[2].k \in InfixKinds
    /\ Evaluates(tokens[1])
    /\ Evaluates(tokens[3])

\* `OP a` was evaluated, a an operand that evaluates.
EvaluatedUnary ==
    /\ pstage = "evaluate"
    /\ Len(tokens) = 2
    /\ tokens[1].k \in {"Minus", "Bang"}
    /\ Evaluates(tokens[2])

\* The integer of the Number of a digit.
IntOf(value) == value.n.num

\* C16: `+` yields the sum of two Numbers, the concatenation of two Strings
\* and the error WrongPlusOperands for every other pair of operand values.
C16_Plus ==
    (EvaluatedPair /\ tokens[2].k = "Plus") =>
        LET l == ValueOf(tokens[1])
            r == ValueOf(tokens[3])
        IN  /\ evaluated.envs = envs
            /\ IF l.t = "Number" /\ r.t = "Number"
               THEN evaluated.ok /\ evaluated.v = Number(F64Lit(IntOf(l) + IntOf(r)))
               ELSE IF l.t = "String" /\ r.t = "String"
               THEN evaluated.ok /\ evaluated.v = String(l.s \o r.s)
               ELSE ~evaluated.ok /\ evaluated.err = WrongPlusOperands

\* "s" + "t" was evaluated.
C16_Witness ==
    /\ EvaluatedPair
    /\ tokens = <<TokenString(<<"s">>), Tok("Plus"), TokenString(<<"t">>)>>
    /\ evaluated.v = String(<<"s", "t">>)

\* What OP gives on the Numbers l and r of two digits.
NumericResult(op, v, l, r) ==
    CASE op = "Minus" -> v = Number(F64Fin(l < r, IF l < r THEN r - l ELSE l - r, 1))
      [] op = "Star" -> v = Number(F64Lit(l * r))
      [] op = "Slash" -> v.t = "Number" /\ (r = 1 => v = Number(F64Lit(l)))
      [] op = "Less" -> v = Boolean(l < r)
      [] op = "LessEqual" -> v = Boolean(l <= r)
      [] op = "Greater" -> v = Boolean(l > r)
      [] op = "GreaterEqual" -> v = Boolean(l >= r)

\* C17: unary minus, `-`, `*`, `/`, `<`, `<=`, `>`, `>=` give ExpectedNumber
\* when an operand value is a Boolean, a String or Nil; on Numbers the
\* arithmetic operators give a Number and the comparisons a Boolean.
C17_ExpectedNumber ==
    /\ (EvaluatedPair /\ tokens[2].k \notin {"Plus", "EqualEqual", "BangEqual"}) =>
          LET l == ValueOf(tokens[1])
              r == ValueOf(tokens[3])
          IN  /\ evaluated.envs = envs
              /\ IF l.t = "Number" /\ r.t = "Number"
                 THEN /\ evaluated.ok
                      /\ NumericResult(tokens[2].k, evaluated.v, IntOf(l), IntOf(r))
                 ELSE ~evaluated.ok /\ evaluated.err = ExpectedNumber
    /\ (EvaluatedUnary /\ tokens[1].k = "Minus") =>
          LET a == ValueOf(tokens[2])
          IN  /\ evaluated.envs = envs
              /\ IF a.t = "Number"
                 THEN evaluated.ok /\ evaluated.v = Number(F64Fin(TRUE, IntOf(a), 1))
                 ELSE ~evaluated.ok /\ evaluated.err = ExpectedNumber

\* 1 < nil was evaluated.
C17_Witness ==
    /\ EvaluatedPair
    /\ tokens = <<TokenNumber(1), Tok("Less"), Tok("Nil")>>
    /\ ~evaluated.ok
    /\ evaluated.err = ExpectedNumber

\* C18: `!` never fails; it gives true for false and nil, and false for
\* true, for every Number (0 too) and for every String ("" too).
C18_Bang ==
    (EvaluatedUnary /\ tokens[1].k = "Bang") =>
        LET a == ValueOf(tokens[2])
        IN  /\ evaluated.ok
            /\ evaluated.envs = envs
            /\ evaluated.v = Boolean(a = Boolean(FALSE) \/ a = Nil)

\* !0 was evaluated.
C18_Witness ==
    /\ EvaluatedUnary
    /\ tokens = <<Tok("Bang"), TokenNumber(0)>>
    /\ evaluated.v = Boolean(FALSE)

\* C19: the command tokenize prints the dump of every valid token, in
\* order, then `EOF  null` as its last line, for every source; it exits with
\* 65 when the source has a lex error and with 0 when it has none.
C19_TokenizeEndsWithEof ==
    console.ran =>
        LET items  == Items(lexer.file_content, 0, 1)
            valid  == {i \in DOMAIN items : items[i].st = "ok"}
            errors == {i \in DOMAIN items : items[i].st = "err"}
        IN  /\ Len(console.stdout) = Cardinality(valid) + 1
            /\ console.stdout[Len(console.stdout)] = EofLine
            /\ \A i \in valid :
                  console.stdout[Cardinality({j \in valid : j <= i})] =
                      TokenDisplay(items[i].token)
            /\ console.exit_code = 65 <=> errors /= {}
            /\ console.exit_code = 0 <=> errors = {}

\* The command ran on a source with a valid token and a lex error.
C19_Witness ==
    /\ console.ran
    /\ console.exit_code = 65
    /\ Len(console.stdout) >= 2
    /\ console.stdout[Len(console.stdout)] = EofLine

UnexpectedItem(lexed) ==
    lexed.item.st = "err" /\ lexed.item.err.kind = "UnexpectedCharacter"

\* A call of next that yields UnexpectedCharacter stops right after the
\* character it reports: what it skipped before it lexes to nothing.
C20_Step ==
    (yielded' /= yielded /\ UnexpectedItem(yielded'[Len(yielded')])) =>
        LET lexed == yielded'[Len(yielded')]
            p     == lexed.chars
            file_content == lexer.file_content
        IN  /\ p > lexer.chars
            /\ file_content[p] = lexed.item.err.c
            /\ Items(SubSeq(file_content, lexer.chars + 1, p - 1), 0, 1) = <<>>
            /\ lexer'.chars = p
            /\ lexer'.line_count = lexed.item.err.line_count

\* The items yielded after an UnexpectedCharacter at position p are the
\* items of the source from p + 1 on, lexed with the line counter of the
\* error.
C20_Resumes ==
    \A i \in DOMAIN yielded :
        UnexpectedItem(yielded[i]) =>
            LET file_content == lexer.file_content
                suffix   == SubSeq(file_content, yielded[i].chars + 1, Len(file_content))
                expected == Items(suffix, 0, yielded[i].item.err.line_count)
                after    == SelectSeq(SubSeq(yielded, i + 1, Len(yielded)),
                                      LAMBDA lexed : lexed.item.st /= "none")
            IN  /\ Len(after) <= Len(expected)
                /\ \A j \in DOMAIN after : after[j].item = expected[j]
                /\ Exhausted > 0 => Len(after) = Len(expected)

\* C20: the Lexer does not end on an UnexpectedCharacter: it has consumed
\* the character of the error and no more, and what it yields afterwards is
\* what lexing the rest of the source with the same line counter yields.
C20_ResumesAfterUnexpectedCharacter == []C20_Resumes /\ [][C20_Step]_vars

\* An UnexpectedCharacter was yielded, and a token after it.
C20_Witness ==
    \E i \in DOMAIN yielded :
        /\ UnexpectedItem(yielded[i])
        /\ i < Len(yielded)
        /\ yielded[i + 1].item.st = "ok"

\* A run of digits, not empty.
IsDigitRun(text) == text /= <<>> /\ \A i \in DOMAIN text : text[i] \in Digits

\* A digit run, or a digit run, one `.` and a digit run.
NumberShape(lexeme) ==
    \/ IsDigitRun(lexeme)
    \/ \E p \in DOMAIN lexeme :
          /\ lexeme[p] = "."
          /\ IsDigitRun(SubSeq(lexeme, 1, p - 1))
          /\ IsDigitRun(SubSeq(lexeme, p + 1, Len(lexeme)))

NumberItem(lexed) == lexed.item.st = "ok" /\ lexed.item.token.k = "Number"

\* The lexeme of every Number token yielded is the slice of the source the
\* call consumed last, and it has at most one `.`.
C21_NumberSlices ==
    \A i \in DOMAIN yielded :
        NumberItem(yielded[i]) =>
            LET lexeme == yielded[i].item.token.s
                end    == yielded[i].chars
            IN  /\ lexeme = SubSeq(lexer.file_content, end - Len(lexeme) + 1, end)
                /\ Cardinality({p \in DOMAIN lexeme : lexeme[p] = "."}) <= 1
                /\ lexeme[1] \in Digits

\* The source `d1.d2.d3` lexes to Number(d1.d2), Dot, Number(d3).
C21_ThreeRuns ==
    \A p, q \in DOMAIN lexer.file_content :
        LET file_content == lexer.file_content
            d1 == SubSeq(file_content, 1, p - 1)
            d2 == SubSeq(file_content, p + 1, q - 1)
            d3 == SubSeq(file_content, q + 1, Len(file_content))
        IN  (/\ p < q
             /\ file_content[p] = "."
             /\ file_content[q] = "."
             /\ IsDigitRun(d1) /\ IsDigitRun(d2) /\ IsDigitRun(d3)) =>
                Items(file_content, 0, 1) =
                    << ItemOk(Token("Number", d1 \o <<".">> \o d2,
                                    ParseF64(d1 \o <<".">> \o d2))),
                       ItemOk(Tok("Dot")),
                       ItemOk(Token("Number", d3, ParseF64(d3))) >>

\* C21: the lexeme of a Number token is a maximal digit run, optionally
\* followed by one `.` and a digit run, and never holds two `.`; the source
\* `d1.d2.d3` lexes to Number(d1.d2), Dot, Number(d3); the lexemes are the
\* slices of the source.
C21_NumberLexing ==
    /\ C21_NumberSlices
    /\ C21_ThreeRuns
    /\ \A i \in DOMAIN yielded :
          NumberItem(yielded[i]) => NumberShape(yielded[i].item.token.s)

\* parse_expr, called with min_bp 0, made one tree of the whole stream.
WellFormedExpression == parsed.st = "ok" /\ parsed.rest = <<>> /\ min_bp = 0

\* The trees the text of which parses to an equal tree.
RoundTrips(token_tree) ==
    /\ ExpressionTreeDisplay(token_tree).st = "ok"
    /\ parse_expr(tokenize(ExpressionTreeDisplay(token_tree).text).tokens, 0) =
           ParseOk(<<token_tree>>, <<>>)

\* C22: the tree parse_expr made of a well-formed expression, written with
\* its Display implementation and parsed again (Lexer, then parse_expr),
\* gives a tree equal to the first one.
C22_RoundTrip ==
    (pstage \in {"display", "reparse"} /\ WellFormedExpression) =>
        /\ dumped.st = "ok"
        /\ pstage = "reparse" => reparsed = ParseOk(parsed.val, <<>>)

\* A literal nil, true, false or number, or an assignment of such a tree.
RECURSIVE LiteralOrAssigned(_)
LiteralOrAssigned(token_tree) ==
    \/ token_tree.k \in {"Primary::Nil", "Primary::True", "Primary::False",
                          "Primary::Number"}
    \/ token_tree.k = "Assignment" /\ LiteralOrAssigned(token_tree.kids[1])

\* The round trip gives an equal tree for the literals nil, true, false and
\* the numbers and for the assignments of them, and for no other tree.
C22_LiteralsOnly ==
    (pstage = "parse_expr" /\ WellFormedExpression) =>
        (RoundTrips(parsed.val[1]) <=> LiteralOrAssigned(parsed.val[1]))

\* C23: parse_expr on an exhausted token stream returns Ok(Primary::Nil)
\* for every min_bp, no error, nothing consumed; the evaluation of that tree
\* gives Nil.
C23_EndOfStreamIsNil ==
    (tokens = <<>> /\ pstage \in {"parse_expr", "evaluate", "display", "reparse"}) =>
        /\ parsed = ParseOk(<<PrimaryNil>>, <<>>)
        /\ pstage = "evaluate" =>
              /\ evaluated.ok
              /\ evaluated.v = Nil
              /\ evaluated.envs = envs

\* The exhausted stream was parsed with the min_bp of an operand, and the
\* tree evaluated.
C23_Witness ==
    /\ tokens = <<>>
    /\ min_bp = PrefixBp
    /\ pstage = "evaluate"
    /\ evaluated.v = Nil

\* An Assignment is the operand of a unary or of a binary operator
\* somewhere in the tree.
RECURSIVE HasAssignmentOperand(_)
HasAssignmentOperand(token_tree) ==
    \E i \in DOMAIN token_tree.kids :
        \/ /\ token_tree.k \notin {"Assignment", "Primary::Group"}
           /\ token_tree.kids[i].k = "Assignment"
        \/ HasAssignmentOperand(token_tree.kids[i])

\* C24: `=` has the lowest binding power, 1, so no Assignment is parsed as
\* the operand of a tighter operator: in `a + b = c` it is not the right
\* child of `+`, in `-b = c` and `!b = c` not the operand of the prefix
\* operator.
C24_AssignmentBindsLoosest ==
    (pstage = "parse_expr" /\ parsed.st = "ok") =>
        ~HasAssignmentOperand(parsed.val[1])

\* The names an Assignment of the tree assigns to.
RECURSIVE Assigned(_)
Assigned(token_tree) ==
    (IF token_tree.k = "Assignment" THEN {token_tree.s} ELSE {})
        \cup UNION {Assigned(token_tree.kids[i]) : i \in DOMAIN token_tree.kids}

\* C25: the assignment to a name that no frame binds fails with
\* UndeclaredVariable(name) before its right-hand side is evaluated: the
\* environment is as it was before the expression, with no binding of the
\* name and no effect of the right-hand side.
C25_UndeclaredBeforeRhs ==
    (/\ pstage = "evaluate"
     /\ parsed.val[1].k = "Assignment"
     /\ get(envs, parsed.val[1].s) = None) =>
        evaluated = Err(UndeclaredVariable(parsed.val[1].s), envs)

\* `b = a = v` was evaluated where a is declared and b is not.
C25_Witness ==
    /\ pstage = "evaluate"
    /\ parsed.val[1].k = "Assignment"
    /\ parsed.val[1].s = NameB
    /\ Assigned(parsed.val[1].kids[1]) = {NameA}
    /\ envs = DeclaredA
    /\ evaluated.err = UndeclaredVariable(NameB)
    /\ get(evaluated.envs, NameA) = Some(Number(F64Lit(2)))

\* The position of the character the call of next made with chars
\* characters consumed starts its item with: the first one after the
\* blanks, the line feeds and the comments; 0 when there is none.
RECURSIVE ItemStart(_, _)
ItemStart(file_content, chars) ==
    IF chars >= Len(file_content) THEN 0
    ELSE LET c == file_content[chars + 1]
         IN  IF c \in {" ", "\t", "\n"} THEN ItemStart(file_content, chars + 1)
             ELSE IF /\ c = "/"
                     /\ chars + 1 < Len(file_content)
                     /\ file_content[chars + 2] = "/"
                  THEN ItemStart(file_content, SkipLine(file_content, chars + 2))
             ELSE chars + 1

\* 1 plus the line feeds before position p.
LineOf(file_content, p) ==
    1 + Cardinality({j \in 1..(p - 1) : file_content[j] = "\n"})

\* The characters consumed before the i-th call of next.
ConsumedBefore(i) == IF i = 1 THEN 0 ELSE yielded[i - 1].chars

\* C26: the line of every LexingError is 1 plus the number of line feeds
\* before the offending character (the opening quote for
\* UnterminatedString), whatever they are part of: white space, the end of a
\* comment or an earlier string literal.
C26_ErrorLine ==
    \A i \in DOMAIN yielded :
        yielded[i].item.st = "err" =>
            yielded[i].item.err.line_count =
                LineOf(lexer.file_content, ItemStart(lexer.file_content, ConsumedBefore(i)))

\* The same for the errors that no string literal with a line feed in it
\* precedes.
C26_ErrorLineOutsideStrings ==
    \A i \in DOMAIN yielded :
        (/\ yielded[i].item.st = "err"
         /\ \A j \in 1..(i - 1) :
               ~(/\ yielded[j].item.st = "ok"
                 /\ yielded[j].item.token.k = "String"
                 /\ \E p \in DOMAIN yielded[j].item.token.s :
                       yielded[j].item.token.s[p] = "\n")) =>
            yielded[i].item.err.line_count =
                LineOf(lexer.file_content, ItemStart(lexer.file_content, ConsumedBefore(i)))

\* The binding of ident in the innermost frame, as an Option.
InInnermost(frames, ident) ==
    IF ident \in DOMAIN frames[Len(frames)] THEN Some(frames[Len(frames)][ident])
    ELSE None

\* The target x of the statement that ran, and its right-hand side e.
TargetOf(stmt) == IF stmt.k = "VarDeclaration" THEN stmt.ident ELSE stmt.e[1].s

RhsOf(stmt) == IF stmt.k = "VarDeclaration" THEN stmt.e[1] ELSE stmt.e[1].kids[1]

\* The statement `var x = e;` or `x = e;` ran, its e was evaluated and
\* failed.
RhsFailed ==
    /\ status = "running"
    /\ steps' = steps + 1
    /\ status' \in {"unwinding", "error"}
    /\ \/ cur'.k = "VarDeclaration"
       \/ /\ cur'.k = "Expr"
          /\ cur'.e[1].k = "Assignment"
          /\ get(envs, TargetOf(cur')) /= None
    /\ ~evaluate_expr(RhsOf(cur'), envs).ok

\* The target is as it was before the statement.
TargetUntouched ==
    IF cur'.k = "VarDeclaration"
    THEN InInnermost(envs', TargetOf(cur')) = InInnermost(envs, TargetOf(cur'))
    ELSE get(envs', TargetOf(cur')) = get(envs, TargetOf(cur'))

C27_StepOriginal == RhsFailed => TargetUntouched

\* C27, as stated: when the initializer of `var x = e;` fails, x is not
\* declared and a binding of x in that frame keeps its value; when the
\* right-hand side of `x = e` fails, the binding of x keeps its previous
\* value.
C27_TargetUntouched == [][C27_StepOriginal]_vars

C27_Step ==
    RhsFailed =>
        /\ envs' = evaluate_expr(RhsOf(cur'), envs).envs
        /\ TargetOf(cur') \notin AssignTargets(RhsOf(cur')) => TargetUntouched

\* C27, amended: the statement whose right-hand side fails stores nothing:
\* the environments are those the evaluation of e left at the error; when
\* e holds no assignment to x, x is not declared by `var x = e;`, a binding
\* of x in that frame keeps its value, and the binding `x = e` names keeps
\* its previous value.
C27_NoStoreAfterError == [][C27_Step]_vars

\* `var b = -"s";` failed where b was not declared, and b is not declared.
C27_Witness ==
    /\ ev = "VarDeclaration"
    /\ cur = StmtVarDeclaration(NameB, Some(MinusString))
    /\ status = "error"
    /\ err = ExpectedNumber
    /\ NameA \in DOMAIN envs[1]
    /\ NameB \notin DOMAIN envs[1]

\* C28: the operands are evaluated left to right.  For `-`, `*`, `/` and
\* the comparisons a left operand that is not a Number raises
\* ExpectedNumber before the right operand is evaluated: the environments
\* are those the left operand left.  For `+`, `==` and `!=` both operands
\* are evaluated, the right one from the environments the left one left,
\* before the variants are looked at: the assignments of the right operand
\* are made even when `+` then fails with WrongPlusOperands.
C28_OperandOrder ==
    (pstage = "evaluate" /\ Len(parsed.val[1].kids) = 2) =>
        LET token_tree == parsed.val[1]
            numeric == token_tree.k \in NumericKinds
            l == evaluate_expr(token_tree.kids[1], envs)
            r == evaluate_expr(token_tree.kids[2], l.envs)
        IN  /\ ~l.ok => evaluated = l
            /\ (l.ok /\ numeric /\ l.v.t /= "Number") =>
                  evaluated = Err(ExpectedNumber, l.envs)
            /\ (l.ok /\ (~numeric \/ l.v.t = "Number")) =>
                  /\ evaluated.envs = r.envs
                  /\ ~r.ok => evaluated = r
            /\ (/\ l.ok /\ r.ok
                /\ token_tree.k = "Term::Plus"
                /\ ~(l.v.t = r.v.t /\ l.v.t \in {"Number", "String"})) =>
                  evaluated = Err(WrongPlusOperands, r.envs)

\* `nil - (a = 2)` was evaluated where a is nil: ExpectedNumber, and a is
\* still nil.
C28_Witness ==
    /\ pstage = "evaluate"
    /\ tokens = <<Tok("Nil"), Tok("Minus")>> \o GroupedAssignment(NameA, TokenNumber(2))
    /\ envs = Declared
    /\ evaluated = Err(ExpectedNumber, Declared)

\* C29: the Lexer terminates on every finite source.  A call of next that
\* returns an item has consumed at least one character; no call consumes
\* past the end; the items yielded are at most as many as the characters;
\* UnterminatedString leaves nothing of the input; once the input is
\* exhausted every call returns None, and None is returned only then.
C29_LexerTerminates ==
    LET file_content == lexer.file_content
        items == {i \in DOMAIN yielded : yielded[i].item.st /= "none"}
    IN  /\ \A i \in DOMAIN yielded :
              /\ ConsumedBefore(i) <= yielded[i].chars
              /\ yielded[i].chars <= Len(file_content)
              /\ yielded[i].item.st /= "none" => ConsumedBefore(i) < yielded[i].chars
              /\ yielded[i].item.st = "none" => yielded[i].chars = Len(file_content)
              /\ ConsumedBefore(i) = Len(file_content) => yielded[i].item.st = "none"
              /\ (/\ yielded[i].item.st = "err"
                  /\ yielded[i].item.err.kind = "UnterminatedString") =>
                    yielded[i].chars = Len(file_content)
        /\ Cardinality(items) <= Len(file_content)
        /\ lexer.chars <= Len(file_content)

\* An UnterminatedString was yielded for a quote that characters follow,
\* and the two calls after it returned None.
C29_Witness ==
    /\ Len(yielded) = 3
    /\ yielded[1].item.st = "err"
    /\ yielded[1].item.err.kind = "UnterminatedString"
    /\ ItemStart(lexer.file_content, 0) < Len(lexer.file_content)
    /\ yielded[2].item.st = "none"
    /\ yielded[3].item.st = "none"

\* What is left of tokens from its k-th token on: the streams the calls
\* of parse_statement made for the statements of tokens are among them.
Suffix(toks, k) == SubSeq(toks, k, Len(toks))

\* parse_statement on toks returned Some(statement) only after it consumed
\* a token, and left a suffix of toks.
ConsumesToken(toks) ==
    LET r == parse_statement(toks)
    IN  /\ Len(r.rest) <= Len(toks)
        /\ r.rest = Suffix(toks, Len(toks) - Len(r.rest) + 1)
        /\ (r.st = "ok" /\ r.val /= None) => Len(r.rest) < Len(toks)
        /\ (r.st = "ok" /\ r.val = None) => toks = <<>>

\* C30: parse_statements terminates on every finite token stream.  Every
\* call of parse_statement that returns Some(statement) has consumed at
\* least one token, those the loop of a block makes on what is left of the
\* stream among them, and returns None only at the end of the stream;
\* parse_statements returns Ok only when the stream is exhausted, with no
\* more statements than there were tokens.
C30_ParseStatementsTerminates ==
    /\ pstage \in {"parse_statement", "parse_statements"} =>
          /\ Len(parsed.rest) <= Len(tokens)
          /\ \A k \in 1..(Len(tokens) + 1) : ConsumesToken(Suffix(tokens, k))
    /\ (pstage = "parse_statement" /\ parsed.st = "ok" /\ parsed.val /= None) =>
          Len(parsed.rest) < Len(tokens)
    /\ (pstage = "parse_statements" /\ parsed.st = "ok") =>
          /\ parsed.rest = <<>>
          /\ Len(parsed.val) <= Len(tokens)

\* parse_statements returned a Block that holds a statement, and the
\* statement after it.
C30_Witness ==
    /\ pstage = "parse_statements"
    /\ parsed.st = "ok"
    /\ Len(parsed.val) = 2
    /\ parsed.val[1].k = "Block"
    /\ parsed.val[1].body /= <<>>
    /\ parsed.rest = <<>>
====
